---- MODULE Spec2Model ----
(***************************************************************************)
(* A model of typepersist's CoreDB (src/src/core-db.ts) and CoreDBPlus     *)
(* (src/src/core-db-plus.ts) on top of an SQLite database: the schema      *)
(* migration engine, schemaConnect, the predicate compiler and the join    *)
(* resolution engine.                                                      *)
(* SQLDBPlus (src/src/sql-db-plus.ts) is modelled with its transactions,   *)
(* its insert and its query, and QueryWrapper (src/src/core-js-wrapper.ts) *)
(* with its execute, first, exists, count, sum, avg and delete.            *)
(*                                                                         *)
(* A value is <<>> (SQL NULL) or <<n>> (the integer n).  A table is a      *)
(* record of its columns (in declaration order), its rows (in rowid order, *)
(* each row a sequence of values aligned with the columns), its indexes    *)
(* and its AUTOINCREMENT counter.  The database is a function from the     *)
(* names of the existing tables to tables.                                 *)
(***************************************************************************)
EXTENDS Integers, Sequences, FiniteSets, TLC

VARIABLES
  db,      \* the SQLite database behind the knex instance
  last,    \* the last call: operation, argument, error, statements, database before it, result
  prev,    \* operation, argument and error of the call before the last
  schemaCalls,  \* number of schema calls made
  transactionOpen,  \* SQLDBPlus.transactionOpen
  autoCommit,       \* SQLDBPlus.autoCommit
  wrapper,   \* the query object of the QueryWrapper the program holds, or <<>>
  journal,   \* the database as it was at BEGIN TRANSACTION, which ROLLBACK restores
  txlog,     \* the inserts issued since the transaction began, with their errors
  lastInsertRowid,  \* what SELECT last_insert_rowid() returns on the connection
  callers    \* of every caller of the SQLDBPlus instance: where its insert call is

txvars == <<transactionOpen, autoCommit, wrapper, journal, txlog, lastInsertRowid, callers>>

vars == <<db, last, prev, schemaCalls, transactionOpen, autoCommit, wrapper, journal, txlog,
          lastInsertRowid, callers>>

----------------------------------------------------------------------------
(* Bounds of the model *)

\* most rows a table holds in the schema specifications
MaxRows == 1
\* most rows of users in the specification of the callers
MaxCallerRows == 2
\* most ids given to users in the specification of the QueryWrapper
MaxWrapperIds == 2
\* most schema calls of one run of the schema specification
MaxCalls == 2
MaxConnects == 3
MaxJoinRows == 3
MaxUsers == 3
MaxProducts == 2

----------------------------------------------------------------------------
(* Values, columns, tables *)

NULL == <<>>

Val(n) == <<n>>

\* FieldDef.defaultValue === undefined, and columnInfo's defaultValue null
NoDefault == "<none>"

\* FieldDef.foreignTable === undefined, and a column without REFERENCES
NoTable == ""

\* FieldDef.indexed === undefined
NotIndexed == ""

Range(s) == {s[i] : i \in 1..Len(s)}

SeqMax(s) == IF s = <<>> THEN 0 ELSE CHOOSE m \in Range(s) : \A x \in Range(s) : x <= m

\* table.increments("id").primary()
IdColumn ==
  [name |-> "id", type |-> "integer", notnull |-> TRUE, dflt |-> NoDefault, fk |-> NoTable]

EmptyDB == <<>>

\* the callers that share one SQLDBPlus instance, and a caller with no call
\* in flight: `began` says that the BEGIN of the open transaction was sent
\* by its startTransaction, `started` that it has called startTransaction
Callers == {"A", "B"}

Idle == [pc |-> "idle", began |-> FALSE, started |-> FALSE]

\* a new instance on a new connection: no transaction open, no row
\* inserted, no call in flight; and no QueryWrapper built
NoTransaction ==
  /\ transactionOpen = FALSE
  /\ autoCommit = FALSE
  /\ wrapper = <<>>
  /\ journal = EmptyDB
  /\ txlog = <<>>
  /\ lastInsertRowid = 0
  /\ callers = [c \in Callers |-> Idle]

HasTable(d, t) == t \in DOMAIN d

ColNames(tbl) == [i \in 1..Len(tbl.cols) |-> tbl.cols[i].name]

ColIndex(tbl, c) == CHOOSE i \in 1..Len(tbl.cols) : tbl.cols[i].name = c

RowIds(tbl) == [i \in 1..Len(tbl.rows) |-> tbl.rows[i][1][1]]

\* SQLite compares identifiers without regard to letter case
Lower(s) ==
  CASE s = "AuthorsId" -> "authorsid"
    [] s = "authorsId" -> "authorsid"
    [] s = "pubHousesId" -> "pubhousesid"
    [] OTHER -> s

\* lodash camelCase on the table names of the model
CamelCase(s) ==
  CASE s = "pub_houses" -> "pubHouses"
    [] OTHER -> s

\* `${_.camelCase(parentName)}Id`: the foreign-key column of a child of
\* table parentName
ForeignKeyField(parentName) == CamelCase(parentName) \o "Id"

----------------------------------------------------------------------------
(* Type mapping *)

Unsupported == "<unsupported>"

\* the knex column type of a field type; "" for the reference types that get
\* no column; Unsupported where the code throws "Unsupported field type"
getKnexFieldType(ty) ==
  CASE ty \in {"Text", "Password", "Enum"} -> "text"
    [] ty = "UUID" -> "uuid"
    [] ty \in {"Integer", "ID", "ReferenceOneToOne", "ReferenceManyToOne"} -> "integer"
    [] ty \in {"Currency", "Decimal"} -> "decimal"
    [] ty = "Float" -> "float"
    [] ty = "Double" -> "double"
    [] ty = "Boolean" -> "boolean"
    [] ty = "Binary" -> "binary"
    [] ty = "Date" -> "date"
    [] ty = "Time" -> "time"
    [] ty \in {"Datetime", "CreatedAt", "UpdatedAt"} -> "datetime"
    [] ty \in {"ReferenceOneToMany", "ReferenceManyToMany"} -> ""
    [] OTHER -> Unsupported

\* the SQL type that the column builder called by translateType declares on
\* SQLite for a knex column type (table.uuid, table.decimal, table.double,
\* table.binary do not keep their names)
translateType(knexType) ==
  CASE knexType = "uuid" -> "char(36)"
    [] knexType \in {"decimal", "double", "float"} -> "float"
    [] knexType = "binary" -> "blob"
    [] OTHER -> knexType

\* the type columnInfo() reports for a declared SQL type: lower case, a
\* length in parentheses cut off
InfoType(sqlType) ==
  CASE sqlType = "char(36)" -> "char"
    [] OTHER -> sqlType

\* column.defaultTo(v): the default as SQL text, which is what columnInfo()
\* reports back as defaultValue
DefaultSql(v) == IF v = NoDefault THEN "null" ELSE "'" \o v \o "'"

\* the integer a defaultValue of the model's definitions stands for
DefaultLiteral(v) ==
  CASE v = "1" -> 1
    [] OTHER -> 0

\* the value a row gets for a column added with FieldDef f
DefaultRowValue(f) ==
  IF f.defaultValue = NoDefault THEN NULL ELSE Val(DefaultLiteral(f.defaultValue))

IsForeignRef(f) == f.type = "ReferenceManyToOne" /\ f.foreignTable # NoTable

\* the column a FieldDef declares: type, REFERENCES for a many-to-one
\* reference, NOT NULL when required, DEFAULT when given
FieldColumn(f) ==
  [name |-> f.name,
   type |-> IF IsForeignRef(f) THEN "integer" ELSE translateType(getKnexFieldType(f.type)),
   notnull |-> f.required,
   dflt |-> IF f.defaultValue = NoDefault THEN NoDefault ELSE DefaultSql(f.defaultValue),
   fk |-> IF IsForeignRef(f) THEN f.foreignTable ELSE NoTable]

\* the column the rebuild declares for a field other than the one being
\* changed: the type of the definition, nullability and default of the
\* existing column (whose default is never undefined), no REFERENCES
CopiedColumn(f, existingCol) ==
  [name |-> f.name,
   type |-> translateType(getKnexFieldType(f.type)),
   notnull |-> ~existingCol.nullable,
   dflt |-> DefaultSql(existingCol.defaultValue),
   fk |-> NoTable]

\* knex(table).columnInfo(): a map from column name to type, nullable and
\* defaultValue; empty when the table does not exist
ColumnInfo(d, t) ==
  IF ~HasTable(d, t) THEN <<>>
  ELSE [c \in Range(ColNames(d[t])) |->
          LET col == d[t].cols[ColIndex(d[t], c)]
          IN  [type |-> InfoType(col.type),
               nullable |-> ~col.notnull,
               defaultValue |-> col.dflt]]

\* a child table whose foreign keys the lookup does not report
ForeignKeysUnseen(d, t) == {}

\* PRAGMA foreign_key_list(t)
getForeignKeys(d, t) ==
  IF ~HasTable(d, t) THEN {}
  ELSE {[from |-> d[t].cols[i].name, table |-> d[t].cols[i].fk, to |-> "id"] :
          i \in {j \in 1..Len(d[t].cols) : d[t].cols[j].fk # NoTable}}

\* SELECT name FROM sqlite_master WHERE type='index' AND tbl_name=t
IndexNames(d, t) == {x.name : x \in d[t].idx}

----------------------------------------------------------------------------
(* The statements a schema call sends to the database.  A run state is the  *)
(* database so far, the DDL statements issued so far, in order, and the     *)
(* error that ended the call ("" while it runs).                            *)

NoError == ""

Start(d) == [db |-> d, ddl |-> <<>>, err |-> NoError]

Running(st) == st.err = NoError

Stmt(op, t) == [op |-> op, table |-> t]

Issue(st, op, t) == [st EXCEPT !.ddl = Append(@, Stmt(op, t))]

Throw(st, e) == [st EXCEPT !.err = e]

Put(d, t, tbl) == (t :> tbl) @@ d

Remove(d, t) == [x \in DOMAIN d \ {t} |-> d[x]]

\* a delete that removes the rows `ids` of table t and no other row
NoCascade(d, t, ids, fuel) ==
  [d EXCEPT ![t].rows = SelectSeq(@, LAMBDA r : r[1][1] \notin ids)]

\* the ids that a delete of the rows `ids` of table t removes from each
\* table, following ON DELETE CASCADE references to any depth
RECURSIVE Cascade(_, _, _, _)
Cascade(d, t, ids, fuel) ==
  LET kept == SelectSeq(d[t].rows, LAMBDA r : r[1][1] \notin ids)
      d1 == [d EXCEPT ![t].rows = kept]
      Refs(c) == {i \in 1..Len(d1[c].cols) : d1[c].cols[i].fk = t}
      Hit(c) == {r[1][1] : r \in {x \in Range(d1[c].rows) :
                     \E i \in Refs(c) : x[i] # NULL /\ x[i][1] \in ids}}
      children == {c \in DOMAIN d1 : Hit(c) # {}}
      RECURSIVE Each(_, _)
      Each(dd, cs) ==
        IF cs = {} THEN dd
        ELSE LET c == CHOOSE x \in cs : TRUE
             IN  Each(Cascade(dd, c, Hit(c), fuel - 1), cs \ {c})
  IN  IF ids = {} \/ fuel = 0 THEN d1 ELSE Each(d1, children)

DeleteRows(d, t, ids) == Cascade(d, t, ids, Cardinality(DOMAIN d) + 1)

\* knex.schema.createTable(t, ...) with the columns and indexes collected by
\* the callback
CreateTable(st, t, cols, idx) ==
  IF ~Running(st) THEN st
  ELSE LET st1 == Issue(st, "createTable", t)
       IN  IF HasTable(st1.db, t) THEN Throw(st1, "table already exists")
           ELSE [st1 EXCEPT !.db = Put(@, t,
                   [cols |-> cols, rows |-> <<>>, idx |-> idx, seq |-> 0])]

\* a row violates NOT NULL or a REFERENCES constraint of the columns
RowViolates(d, cols, r) ==
  \E i \in 1..Len(cols) :
     \/ cols[i].notnull /\ r[i] = NULL
     \/ /\ cols[i].fk # NoTable
        /\ r[i] # NULL
        /\ \/ ~HasTable(d, cols[i].fk)
           \/ r[i][1] \notin Range(RowIds(d[cols[i].fk]))

\* INSERT INTO temp SELECT * FROM t: the values of each row are copied by
\* position, so both tables must have the same number of columns
CopyRows(st, temp, t) ==
  IF ~Running(st) THEN st
  ELSE LET st1 == Issue(st, "insertSelect", temp)
           src == st1.db[t]
           dst == st1.db[temp]
       IN  IF Len(src.cols) # Len(dst.cols)
             THEN Throw(st1, "table has a different number of columns")
           ELSE IF \E r \in Range(src.rows) : RowViolates(st1.db, dst.cols, r)
             THEN Throw(st1, "constraint failed")
           ELSE [st1 EXCEPT !.db[temp].rows = src.rows,
                            !.db[temp].seq = SeqMax(RowIds(src))]

\* knex.schema.dropTable(t): DROP TABLE deletes the rows first, which
\* cascades to the rows that reference them (PRAGMA foreign_keys = ON)
DropTable(st, t) ==
  IF ~Running(st) THEN st
  ELSE LET st1 == Issue(st, "dropTable", t)
       IN  IF ~HasTable(st1.db, t) THEN Throw(st1, "no such table")
           ELSE [st1 EXCEPT !.db =
                   Remove(DeleteRows(@, t, Range(RowIds(@[t]))), t)]

\* knex.schema.renameTable(from, to)
RenameTable(st, from, to) ==
  IF ~Running(st) THEN st
  ELSE LET st1 == Issue(st, "renameTable", from)
       IN  IF ~HasTable(st1.db, from) THEN Throw(st1, "no such table")
           ELSE IF HasTable(st1.db, to) THEN Throw(st1, "table already exists")
           ELSE [st1 EXCEPT !.db = Put(Remove(@, from), to, @[from])]

\* knex.schema.alterTable(t, add the column of FieldDef f)
AddColumn(st, t, f) ==
  IF ~Running(st) THEN st
  ELSE LET st1 == Issue(st, "addColumn", t)
           tbl == st1.db[t]
       IN  IF ~HasTable(st1.db, t) THEN Throw(st1, "no such table")
           ELSE IF \E i \in 1..Len(tbl.cols) : Lower(tbl.cols[i].name) = Lower(f.name)
             THEN Throw(st1, "duplicate column name")
           ELSE IF f.required /\ f.defaultValue = NoDefault /\ tbl.rows # <<>>
             THEN Throw(st1, "Cannot add a NOT NULL column with default value NULL")
           ELSE [st1 EXCEPT
                   !.db[t].cols = Append(@, FieldColumn(f)),
                   !.db[t].rows = [i \in 1..Len(@) |-> Append(@[i], DefaultRowValue(f))]]

\* knex.schema.alterTable(t, drop column c)
DropColumn(st, t, c) ==
  IF ~Running(st) THEN st
  ELSE LET st1 == Issue(st, "dropColumn", t)
           tbl == st1.db[t]
           keep == {i \in 1..Len(tbl.cols) : tbl.cols[i].name # c}
           Pick(s) == [k \in 1..Cardinality(keep) |->
                         s[CHOOSE i \in keep : Cardinality({j \in keep : j < i}) = k - 1]]
       IN  IF ~HasTable(st1.db, t) THEN Throw(st1, "no such table")
           ELSE IF keep = 1..Len(tbl.cols) THEN Throw(st1, "no such column")
           ELSE [st1 EXCEPT
                   !.db[t].cols = Pick(tbl.cols),
                   !.db[t].rows = [i \in 1..Len(tbl.rows) |-> Pick(tbl.rows[i])],
                   !.db[t].idx = {x \in @ : x.col # c}]

\* two rows holding the same non-NULL value in column c
HasDuplicates(tbl, c) ==
  LET k == ColIndex(tbl, c)
  IN  \E i, j \in 1..Len(tbl.rows) :
        i < j /\ tbl.rows[i][k] # NULL /\ tbl.rows[i][k] = tbl.rows[j][k]

\* knex.schema.alterTable(t, table.unique / table.index on one column)
CreateIndex(st, t, c, name, unique) ==
  IF ~Running(st) THEN st
  ELSE LET st1 == Issue(st, "createIndex", t)
       IN  IF \E x \in DOMAIN st1.db : name \in IndexNames(st1.db, x)
             THEN Throw(st1, "index already exists")
           ELSE IF unique /\ HasDuplicates(st1.db[t], c)
             THEN Throw(st1, "UNIQUE constraint failed")
           ELSE [st1 EXCEPT !.db[t].idx =
                   @ \cup {[name |-> name, col |-> c, unique |-> unique]}]

----------------------------------------------------------------------------
(* CoreDB.schemaCreateOrUpdate *)

\* field.indexName || `idx_${table}_${field.name}`
IndexName(t, f) == "idx_" \o t \o "_" \o f.name

TempName(t) == t \o "_temp"

\* table absent: one createTable with the id column, a column per field
\* that has a column type, and a plain index per indexed field; a field of
\* unsupported type throws inside the callback, before the statement is sent
CreateFresh(d, D) ==
  LET fs == SelectSeq(D.fields, LAMBDA f : getKnexFieldType(f.type) # "")
      cols == <<IdColumn>> \o [i \in 1..Len(fs) |-> FieldColumn(fs[i])]
      idx == {[name |-> IndexName(D.name, f), col |-> f.name, unique |-> FALSE] :
                f \in {x \in Range(fs) : x.indexed # NotIndexed}}
  IN  IF \E f \in Range(D.fields) : getKnexFieldType(f.type) = Unsupported
        THEN Throw(Start(d), "Unsupported field type")
      ELSE CreateTable(Start(d), D.name, cols, idx)

\* the column-match check: type, nullability and default as columnInfo()
\* reported them at the start of the call, and for a many-to-one reference
\* the foreign key as the database has it now
ColumnMatches(d, t, field, existingColumn) ==
  LET currentType == existingColumn.type
      expectedType == getKnexFieldType(field.type)
      currentNullable == existingColumn.nullable
      expectedNullable == ~field.required
      currentDefault == existingColumn.defaultValue
      expectedDefault == field.defaultValue
      hasForeignKey == \E fk \in getForeignKeys(d, t) :
                          fk.from = field.name /\ fk.table = field.foreignTable /\ fk.to = "id"
  IN  /\ currentType = expectedType
      /\ currentNullable = expectedNullable
      /\ currentDefault = expectedDefault
      /\ IsForeignRef(field) => hasForeignKey

\* the rebuild for one changed field: shadow table, copy, drop, rename
Rebuild(st, D, field, existingColumns) ==
  LET temp == TempName(D.name)
      others == {f \in Range(D.fields) :
                   f.name # field.name /\ f.name \in DOMAIN existingColumns}
      fs == SelectSeq(D.fields, LAMBDA f :
                   f.name = field.name \/ f.name \in DOMAIN existingColumns)
      cols == <<IdColumn>> \o
              [i \in 1..Len(fs) |->
                 IF fs[i].name = field.name THEN FieldColumn(fs[i])
                 ELSE CopiedColumn(fs[i], existingColumns[fs[i].name])]
  IN  IF ~Running(st) THEN st
      ELSE IF \E f \in others : getKnexFieldType(f.type) = Unsupported
        THEN Throw(st, "Unsupported field type")
      ELSE IF \E f \in others : getKnexFieldType(f.type) = ""
        THEN Throw(st, "Invalid column type")
      ELSE RenameTable(
             DropTable(
               CopyRows(CreateTable(st, temp, cols, {}), temp, D.name),
               D.name),
             temp, D.name)

\* the index step of one field: by the index names read at the start
AddIndex(st, D, field, indexNames) ==
  IF Running(st) /\ field.indexed # NotIndexed
                 /\ IndexName(D.name, field) \notin indexNames
    THEN CreateIndex(st, D.name, field.name, IndexName(D.name, field),
                     field.indexed = "Unique")
  ELSE st

\* one round of the reconcile loop
ReconcileField(st, D, field, existingColumns, indexNames) ==
  LET knexType == getKnexFieldType(field.type)
      existing == field.name \in DOMAIN existingColumns
  IN  IF knexType = Unsupported THEN Throw(st, "Unsupported field type")
      ELSE IF knexType = "" THEN st
      ELSE IF existing /\ ColumnMatches(st.db, D.name, field, existingColumns[field.name])
        THEN st
      ELSE AddIndex(
             AddColumn(
               IF existing THEN Rebuild(st, D, field, existingColumns) ELSE st,
               D.name, field),
             D, field, indexNames)

RECURSIVE Reconcile(_, _, _, _, _)
Reconcile(st, D, i, existingColumns, indexNames) ==
  IF ~Running(st) \/ i > Len(D.fields) THEN st
  ELSE Reconcile(ReconcileField(st, D, D.fields[i], existingColumns, indexNames),
                 D, i + 1, existingColumns, indexNames)

\* the whole call: the run state it ends in
schemaCreateOrUpdate(d, D) ==
  IF ~HasTable(d, D.name) THEN CreateFresh(d, D)
  ELSE Reconcile(Start(d), D, 1, ColumnInfo(d, D.name), IndexNames(d, D.name))

----------------------------------------------------------------------------
(* CoreDB.schemaConnect *)

\* the field whose column schemaConnect adds: an integer that references
\* parentName.id with ON DELETE CASCADE
ConnectField(foreignKeyField, parentName) ==
  [name |-> foreignKeyField, type |-> "ReferenceManyToOne", required |-> FALSE,
   defaultValue |-> NoDefault, indexed |-> NotIndexed, foreignTable |-> parentName]

schemaConnect(d, parentName, childName) ==
  LET foreignKeyField == ForeignKeyField(parentName)
      childColumns == ColumnInfo(d, childName)
      hasForeignKey == \E fk \in getForeignKeys(d, childName) :
                          /\ Lower(fk.from) = Lower(foreignKeyField)
                          /\ fk.table = parentName
                          /\ fk.to = "id"
      hasColumn == \E k \in DOMAIN childColumns : Lower(k) = Lower(foreignKeyField)
      st == Start(d)
  IN  IF ~HasTable(d, parentName) THEN Throw(st, "Parent table does not exist")
      ELSE IF ~HasTable(d, childName) THEN Throw(st, "Child table does not exist")
      ELSE IF ~hasColumn \/ ~hasForeignKey
        THEN AddColumn(
               IF foreignKeyField \in DOMAIN childColumns
                 THEN DropColumn(st, childName, foreignKeyField) ELSE st,
               childName, ConnectField(foreignKeyField, parentName))
      ELSE st

----------------------------------------------------------------------------
(* CoreDB.insert *)

\* the id AUTOINCREMENT gives a new row: one more than the largest id the
\* table has held, or holds now
NextId(tbl) ==
  1 + (IF SeqMax(RowIds(tbl)) > tbl.seq THEN SeqMax(RowIds(tbl)) ELSE tbl.seq)

\* the row an insert of `data` stores: the next AUTOINCREMENT id, then the
\* value given for each column (NULL for a column data does not name)
NewRow(tbl, data) ==
  [i \in 1..Len(tbl.cols) |->
     IF i = 1 THEN Val(NextId(tbl))
     ELSE IF tbl.cols[i].name \in DOMAIN data THEN data[tbl.cols[i].name]
     ELSE NULL]

\* a unique index of the table already holds the row's value
UniqueViolated(tbl, r) ==
  \E x \in tbl.idx :
     /\ x.unique
     /\ LET k == ColIndex(tbl, x.col)
        IN  r[k] # NULL /\ \E i \in 1..Len(tbl.rows) : tbl.rows[i][k] = r[k]

\* insert(tableName, data): the validation against columnInfo(), then the
\* INSERT, whose constraint errors come back as one re-classified error
insert(d, t, data) ==
  LET columns == ColumnInfo(d, t)
      row == NewRow(d[t], data)
  IN  IF \E c \in DOMAIN data \cap DOMAIN columns :
             data[c] = NULL /\ ~columns[c].nullable
        THEN [db |-> d, err |-> "Field cannot be null", id |-> 0]
      ELSE IF ~HasTable(d, t) \/ ~(DOMAIN data \subseteq DOMAIN columns)
        THEN [db |-> d, err |-> "no such table or column", id |-> 0]
      ELSE IF RowViolates(d, d[t].cols, row) \/ UniqueViolated(d[t], row)
        THEN [db |-> d, err |-> "Foreign key constraint failed", id |-> 0]
      ELSE [db |-> [d EXCEPT ![t].rows = Append(@, row), ![t].seq = NextId(d[t])],
            err |-> NoError, id |-> NextId(d[t])]

\* the INSERT alone, as upsert sends it: no validation before it and the
\* backend's error as it is
ExecInsert(d, t, data) ==
  IF ~HasTable(d, t) \/ ~(DOMAIN data \subseteq Range(ColNames(d[t])))
    THEN [db |-> d, err |-> "no such table or column", id |-> 0]
  ELSE LET row == NewRow(d[t], data)
       IN  IF RowViolates(d, d[t].cols, row) \/ UniqueViolated(d[t], row)
             THEN [db |-> d, err |-> "SQLITE_CONSTRAINT", id |-> 0]
           ELSE [db |-> [d EXCEPT ![t].rows = Append(@, row), ![t].seq = NextId(d[t])],
                 err |-> NoError, id |-> NextId(d[t])]

----------------------------------------------------------------------------
(* CoreDB.update, CoreDB.upsert, CoreDB.delete *)

\* the row after SET: the value of data for each column it names
UpdatedRow(tbl, r, data) ==
  [i \in 1..Len(tbl.cols) |->
     IF tbl.cols[i].name \in DOMAIN data THEN data[tbl.cols[i].name] ELSE r[i]]

\* a row of some table references row id of table t
Referenced(d, t, id) ==
  \E c \in DOMAIN d : \E i \in 1..Len(d[c].cols) :
     /\ d[c].cols[i].fk = t
     /\ \E r \in Range(d[c].rows) : r[i] = Val(id)

\* update(tableName, id, data): UPDATE t SET data WHERE id = id; the
\* statement fails as a whole when a changed row breaks NOT NULL, a unique
\* index, the primary key or a reference, or when the id of a referenced
\* row changes
update(d, t, id, data) ==
  IF ~HasTable(d, t) \/ ~(DOMAIN data \subseteq Range(ColNames(d[t])))
    THEN [db |-> d, err |-> "no such table or column"]
  ELSE LET tbl == d[t]
           hit == {k \in 1..Len(tbl.rows) : tbl.rows[k][1] = Val(id)}
           rows == [k \in 1..Len(tbl.rows) |->
                      IF k \in hit THEN UpdatedRow(tbl, tbl.rows[k], data)
                      ELSE tbl.rows[k]]
           keys == {1} \cup {ColIndex(tbl, x.col) : x \in {y \in tbl.idx : y.unique}}
       IN  IF \/ \E k \in hit : RowViolates(d, tbl.cols, rows[k])
              \/ \E k \in hit : \E j \in 1..Len(rows) : \E c \in keys :
                    j # k /\ rows[k][c] # NULL /\ rows[j][c] = rows[k][c]
              \/ \E k \in hit : rows[k][1] # Val(id) /\ Referenced(d, t, id)
             THEN [db |-> d, err |-> "SQLITE_CONSTRAINT"]
           ELSE [db |-> [d EXCEPT ![t].rows = rows], err |-> NoError]

\* upsert(tableName, data): an update of row data.id when data.id is
\* truthy, returning data.id; an INSERT otherwise
upsert(d, t, data) ==
  IF "id" \in DOMAIN data /\ data.id \notin {NULL, Val(0)}
    THEN LET r == update(d, t, data.id[1], data)
         IN  [db |-> r.db, err |-> r.err, id |-> IF r.err = NoError THEN data.id[1] ELSE 0]
  ELSE ExecInsert(d, t, data)

\* delete(tableName, ids): DELETE FROM t WHERE id IN ids
delete(d, t, ids) ==
  IF ~HasTable(d, t) THEN [db |-> d, err |-> "no such table"]
  ELSE [db |-> DeleteRows(d, t, ids), err |-> NoError]

----------------------------------------------------------------------------
(* The predicate compiler: Where trees, the knex builder, SQLite's answer   *)
(*                                                                          *)
(* A Where is [Or |-> children], [And |-> children] or a comparison         *)
(* [left, cmp, right].  A field name is the sequence of its dot-separated   *)
(* parts: <<"rank">> is rank, <<"books", "rank">> is books.rank.            *)
(* A builder is the sequence of where clauses added to a knex query; each   *)
(* clause carries the boolean it is joined with.                            *)

\* TableQuery.query === undefined
NoWhere == [none |-> TRUE]

IsOr(w) == "Or" \in DOMAIN w

IsAnd(w) == "And" \in DOMAIN w

Cmp(left, cmp, right) == [left |-> left, cmp |-> cmp, right |-> right]

SupportedCmp ==
  {"eq", "neq", "ne", "gt", "gte", "lt", "lte", "like", "nlike", "in", "nin", "not"}

\* the SQL operator of a comparison operator
SqlOperator(cmp) ==
  CASE cmp = "eq" -> "="
    [] cmp \in {"neq", "ne", "not"} -> "!="
    [] cmp = "gt" -> ">"
    [] cmp = "gte" -> ">="
    [] cmp = "lt" -> "<"
    [] cmp = "lte" -> "<="
    [] cmp = "like" -> "LIKE"
    [] cmp = "nlike" -> "NOT LIKE"
    [] cmp = "in" -> "IN"
    [] cmp = "nin" -> "NOT IN"

\* a comparison whose right side (or value) is not an array: the list
\* operands of the model are sequences, any other operand of in or nin is
\* marked as such
NotArray(where) == [c \in DOMAIN where \cup {"notArray"} |->
                      IF c = "notArray" THEN TRUE ELSE where[c]]

\* !Array.isArray(right)
IsNotArray(where) == "notArray" \in DOMAIN where

\* the operator knex compiles whereIn / whereNotIn to: with a list of
\* parameters in parentheses for an array, with one bare parameter for a
\* value that is no array
InOperator(where) ==
  IF where.cmp \in {"in", "nin"} /\ IsNotArray(where)
    THEN SqlOperator(where.cmp) \o " ?"
  ELSE SqlOperator(where.cmp)

\* builder.where(column, operator, value) / whereIn / whereNotIn
Basic(bool, column, op, value) ==
  [bool |-> bool, type |-> "basic", column |-> column, op |-> op, value |-> value]

\* builder.where(callback) / orWhere(callback): a parenthesised group
Wrapped(bool, sub) == [bool |-> bool, type |-> "wrapped", sub |-> sub]

\* some comparison of the tree has an operator outside the switch
RECURSIVE HasUnsupportedCmp(_)
HasUnsupportedCmp(w) ==
  IF IsOr(w) THEN \E i \in 1..Len(w.Or) : HasUnsupportedCmp(w.Or[i])
  ELSE IF IsAnd(w) THEN \E i \in 1..Len(w.And) : HasUnsupportedCmp(w.And[i])
  ELSE w.cmp \notin SupportedCmp

\* addTablePrefixToWhere: every comparison gets tableName + "." in front of
\* its left side
RECURSIVE addTablePrefixToWhere(_, _)
addTablePrefixToWhere(where, tableName) ==
  IF IsOr(where)
    THEN [Or |-> [i \in 1..Len(where.Or) |-> addTablePrefixToWhere(where.Or[i], tableName)]]
  ELSE IF IsAnd(where)
    THEN [And |-> [i \in 1..Len(where.And) |-> addTablePrefixToWhere(where.And[i], tableName)]]
  ELSE [where EXCEPT !.left = <<tableName>> \o @]

\* every child joined by the method where
WhereOnly(idx) == "and"

\* the boolean an Or group joins its idx-th child with
OrMethod(idx) == IF idx = 1 THEN "and" ELSE "or"

\* every child after the first joined by the method orWhere
OrWhereAfterFirst(idx) == IF idx = 1 THEN "and" ELSE "or"

\* the boolean an And group joins its children with
AndMethod(idx) == "and"

\* a compiler that adds no clause
NoClause(builder, where) == builder

\* buildWhereClause on a tree whose operators are all supported: the builder
\* with the clauses of `where` added
RECURSIVE buildWhereClause(_, _)
buildWhereClause(builder, where) ==
  IF IsOr(where)
    THEN Append(builder, Wrapped("and",
           [idx \in 1..Len(where.Or) |->
              Wrapped(OrMethod(idx), buildWhereClause(<<>>, where.Or[idx]))]))
  ELSE IF IsAnd(where)
    THEN Append(builder, Wrapped("and",
           [idx \in 1..Len(where.And) |->
              Wrapped(AndMethod(idx), buildWhereClause(<<>>, where.And[idx]))]))
  ELSE Append(builder, Basic("and", where.left, InOperator(where), where.right))

\* three-valued logic of SQL: "T", "F" and "U" (unknown, from NULL)
And3(a, b) == IF a = "F" \/ b = "F" THEN "F" ELSE IF a = "U" \/ b = "U" THEN "U" ELSE "T"

Or3(a, b) == IF a = "T" \/ b = "T" THEN "T" ELSE IF a = "U" \/ b = "U" THEN "U" ELSE "F"

Not3(a) == IF a = "T" THEN "F" ELSE IF a = "F" THEN "T" ELSE "U"

Bool3(b) == IF b THEN "T" ELSE "F"

\* the decimal digits of a number below 100, as LIKE sees it
Digits(n) == IF n < 10 THEN <<n>> ELSE <<n \div 10, n % 10>>

\* hay LIKE '%needle%' on the decimal text of two numbers
Contains(hay, needle) ==
  \E k \in 0..(Len(Digits(hay)) - Len(Digits(needle))) :
     \A j \in 1..Len(Digits(needle)) : Digits(hay)[k + j] = Digits(needle)[j]

\* the position of the column a name refers to in a query FROM table t:
\* 0 when SQLite finds no such column (names match without regard to case;
\* a qualifier must be the table; a name of three parts names a schema)
Resolve(d, t, column) ==
  LET name == column[Len(column)]
      hits == {i \in 1..Len(d[t].cols) : Lower(d[t].cols[i].name) = Lower(name)}
  IN  IF Len(column) > 2 \/ (Len(column) = 2 /\ column[1] # t) \/ hits = {}
        THEN 0
      ELSE CHOOSE i \in hits : TRUE

\* a clause compiles to no SQL at all: a group without clauses, or of such
RECURSIVE IsEmptyClause(_)
IsEmptyClause(c) ==
  c.type = "wrapped" /\ \A i \in 1..Len(c.sub) : IsEmptyClause(c.sub[i])

\* every column named in the clauses resolves
RECURSIVE ClausesResolve(_, _, _)
ClausesResolve(d, t, clauses) ==
  \A i \in 1..Len(clauses) :
     IF clauses[i].type = "wrapped" THEN ClausesResolve(d, t, clauses[i].sub)
     ELSE Resolve(d, t, clauses[i].column) # 0

\* the text of the clauses is SQL: IN and NOT IN take a list in parentheses
RECURSIVE ClausesParse(_)
ClausesParse(clauses) ==
  \A i \in 1..Len(clauses) :
     IF clauses[i].type = "wrapped" THEN ClausesParse(clauses[i].sub)
     ELSE clauses[i].op \notin {"IN ?", "NOT IN ?"}

\* one comparison on one row
EvalBasic(d, t, c, r) ==
  LET cell == r[Resolve(d, t, c.column)]
      v == c.value
  IN  IF c.op = "IN" THEN (IF v = <<>> THEN "F"
                           ELSE IF cell = NULL THEN "U" ELSE Bool3(cell[1] \in Range(v)))
      ELSE IF c.op = "NOT IN" THEN (IF v = <<>> THEN "T"
                           ELSE IF cell = NULL THEN "U" ELSE Bool3(cell[1] \notin Range(v)))
      ELSE IF cell = NULL THEN "U"
      ELSE CASE c.op = "=" -> Bool3(cell[1] = v)
             [] c.op = "!=" -> Bool3(cell[1] # v)
             [] c.op = ">" -> Bool3(cell[1] > v)
             [] c.op = ">=" -> Bool3(cell[1] >= v)
             [] c.op = "<" -> Bool3(cell[1] < v)
             [] c.op = "<=" -> Bool3(cell[1] <= v)
             [] c.op = "LIKE" -> Bool3(Contains(cell[1], v))
             [] c.op = "NOT LIKE" -> Bool3(~Contains(cell[1], v))

\* the WHERE that the clauses compile to, on one row: clauses that compile
\* to nothing are left out, the boolean of the first clause left is not
\* used, and AND binds tighter than OR; no clause left means no WHERE
RECURSIVE EvalClauses(_, _, _, _)
EvalClauses(d, t, clauses, r) ==
  LET cs == SelectSeq(clauses, LAMBDA c : ~IsEmptyClause(c))
      One(c) == IF c.type = "wrapped" THEN EvalClauses(d, t, c.sub, r)
                ELSE EvalBasic(d, t, c, r)
      \* the value of the AND-chain that ends at position i, and of the
      \* OR of the chains before it
      RECURSIVE Walk(_, _, _)
      Walk(i, ors, ands) ==
        IF i > Len(cs) THEN Or3(ors, ands)
        ELSE IF cs[i].bool = "or" THEN Walk(i + 1, Or3(ors, ands), One(cs[i]))
        ELSE Walk(i + 1, ors, And3(ands, One(cs[i])))
  IN  IF cs = <<>> THEN "T" ELSE Walk(2, "F", One(cs[1]))

\* SELECT * FROM t WHERE clauses: the rows, in rowid order
SelectRows(d, t, clauses) ==
  SelectSeq(d[t].rows, LAMBDA r : EvalClauses(d, t, clauses, r) = "T")

----------------------------------------------------------------------------
(* CoreDB.query: the join resolution engine *)

\* a query: the chain of tables (each with its filter or NoWhere), the
\* global filter or NoWhere, the sort list, limit and page (0: not given)
Query(table, where, sort, limit, page) ==
  [table |-> table, query |-> where, sort |-> sort, limit |-> limit, page |-> page]

TableQuery(t, where) == [table |-> t, query |-> where]

Call(op, t, where) == [op |-> op, table |-> t, where |-> where]

\* the record knex returns for a row: a value per column name
RowObject(tbl, r) == [c \in Range(ColNames(tbl)) |-> r[ColIndex(tbl, c)]]

\* a result that is not given the key
WithoutKey(obj, key, value) == obj

\* result[key] = value
WithKey(obj, key, value) ==
  [k \in DOMAIN obj \cup {key} |-> IF k = key THEN value ELSE obj[k]]

\* NULL sorts first; then by number
ValueLess(a, b) == IF a = NULL THEN b # NULL ELSE b # NULL /\ a[1] < b[1]

\* row a comes before row b by the sort list from position k on
RECURSIVE SortsBefore(_, _, _, _, _, _)
SortsBefore(d, t, sort, k, a, b) ==
  IF k > Len(sort) THEN FALSE
  ELSE LET i == Resolve(d, t, <<sort[k].fieldId>>)
           lt == IF sort[k].direction = "asc" THEN ValueLess(a[i], b[i])
                 ELSE ValueLess(b[i], a[i])
       IN  lt \/ (a[i] = b[i] /\ SortsBefore(d, t, sort, k + 1, a, b))

\* ORDER BY: rows that compare equal keep their order
OrderBy(d, t, rows, sort) ==
  LET Before(i, j) == \/ SortsBefore(d, t, sort, 1, rows[i], rows[j])
                      \/ (~SortsBefore(d, t, sort, 1, rows[j], rows[i]) /\ i < j)
      Pos(i) == 1 + Cardinality({j \in 1..Len(rows) : j # i /\ Before(j, i)})
  IN  [k \in 1..Len(rows) |-> rows[CHOOSE i \in 1..Len(rows) : Pos(i) = k]]

\* a select without LIMIT and OFFSET
Unlimited(rows, limit, page) == rows

\* LIMIT and OFFSET: only when a limit is given; the offset only with a page
LimitPage(rows, limit, page) ==
  IF limit = 0 THEN rows
  ELSE LET off == IF page = 0 THEN 0 ELSE (page - 1) * limit
           to == IF off + limit < Len(rows) THEN off + limit ELSE Len(rows)
       IN  SubSeq(rows, off + 1, to)

\* the database's answer to a select built by knex: an error, or the row
\* records
Select(d, t, clauses, sort, limit, page) ==
  IF ~ClausesParse(clauses) THEN [err |-> "syntax error", rows |-> <<>>]
  ELSE IF ~HasTable(d, t) THEN [err |-> "no such table", rows |-> <<>>]
  ELSE IF ~ClausesResolve(d, t, clauses)
          \/ \E k \in 1..Len(sort) : Resolve(d, t, <<sort[k].fieldId>>) = 0
    THEN [err |-> "no such column", rows |-> <<>>]
  ELSE LET rows == LimitPage(OrderBy(d, t, SelectRows(d, t, clauses), sort), limit, page)
       IN  [err |-> NoError, rows |-> [i \in 1..Len(rows) |-> RowObject(d[t], rows[i])]]

\* the message of validateForeignKeyConnection
MissingForeignKey(childTable, expectedForeignKey, parentTable) ==
  "No foreign key connection found: Table '" \o childTable
    \o "' must have a foreign key '" \o expectedForeignKey
    \o "' referencing '" \o parentTable \o "'"

\* a validation that looks at no pair
NoValidation(d, tables, i) == [err |-> NoError, calls |-> <<>>]

\* validateForeignKeyConnection from pair i on: a columnInfo() per pair, in
\* order, until a child lacks the expected column
RECURSIVE validateForeignKeyConnection(_, _, _)
validateForeignKeyConnection(d, tables, i) ==
  IF i > Len(tables) THEN [err |-> NoError, calls |-> <<>>]
  ELSE LET parentTable == tables[i - 1].table
           childTable == tables[i].table
           childColumns == ColumnInfo(d, childTable)
           expectedForeignKey == ForeignKeyField(parentTable)
           call == Call("columnInfo", childTable, <<>>)
           rest == validateForeignKeyConnection(d, tables, i + 1)
       IN  IF expectedForeignKey \notin DOMAIN childColumns
             THEN [err |-> MissingForeignKey(childTable, expectedForeignKey, parentTable),
                   calls |-> <<call>>]
           ELSE [err |-> rest.err, calls |-> <<call>> \o rest.calls]

\* a failed call that goes unnoticed
ErrorDropped(a, b) == NoError

FirstError(a, b) == IF a # NoError THEN a ELSE b

\* the element of a set of one element
The(S) == CHOOSE x \in S : TRUE

\* fetchChildren(parent, tables, depth), with i the position of the child
\* table in the chain, and the fetch of every row of a level; the rows of a
\* select and the objects of a level are computed once and then used
RECURSIVE fetchChildren(_, _, _, _)
RECURSIVE FetchEach(_, _, _, _, _)
fetchChildren(d, parent, tables, i) ==
  IF i > Len(tables) THEN [err |-> NoError, out |-> parent, calls |-> <<>>]
  ELSE LET childTable == tables[i].table
           foreignKey == ForeignKeyField(tables[i - 1].table)
           childQuery == <<Basic("and", <<foreignKey>>, "=", parent.id[1])>>
           filter == tables[i].query
       IN  IF filter # NoWhere /\ HasUnsupportedCmp(filter)
             THEN [err |-> "Unsupported operator", out |-> parent, calls |-> <<>>]
           ELSE The({ The({ [err |-> FirstError(children.err, nested.err),
                             out |-> WithKey(parent, childTable, nested.out),
                             calls |-> <<Call("select", childTable, clauses)>>
                                         \o nested.calls] :
                            nested \in {FetchEach(d, children.rows, tables, i + 1, 1)} }) :
                      clauses \in {IF filter = NoWhere THEN childQuery
                                   ELSE buildWhereClause(childQuery,
                                          addTablePrefixToWhere(filter, childTable))},
                      children \in {Select(d, childTable,
                                      IF filter = NoWhere THEN childQuery
                                      ELSE buildWhereClause(childQuery,
                                             addTablePrefixToWhere(filter, childTable)),
                                      <<>>, 0, 0)} })

FetchEach(d, rows, tables, i, k) ==
  IF k > Len(rows) THEN [err |-> NoError, out |-> <<>>, calls |-> <<>>]
  ELSE The({ [err |-> FirstError(one.err, rest.err),
              out |-> <<one.out>> \o rest.out,
              calls |-> one.calls \o rest.calls] :
             one \in {fetchChildren(d, rows[k], tables, i)},
             rest \in {FetchEach(d, rows, tables, i, k + 1)} })

\* the filters of the parent query, in the order the code adds them
RootFilters(q) ==
  SelectSeq(<<q.table[1].query, q.query>>, LAMBDA w : w # NoWhere)

RECURSIVE BuildAll(_, _, _, _)
BuildAll(builder, filters, t, k) ==
  IF k > Len(filters) THEN builder
  ELSE BuildAll(buildWhereClause(builder, addTablePrefixToWhere(filters[k], t)),
                filters, t, k + 1)

\* CoreDB.query: error, result and the calls made to the backend, in order
query(d, q) ==
  IF q.table = <<>>
    THEN [err |-> "At least one table must be specified in the query",
          out |-> <<>>, calls |-> <<>>]
  ELSE LET valid == validateForeignKeyConnection(d, q.table, 2)
           parentTable == q.table[1].table
           filters == RootFilters(q)
       IN  IF valid.err # NoError
             THEN [err |-> valid.err, out |-> <<>>, calls |-> valid.calls]
           ELSE IF \E k \in 1..Len(filters) : HasUnsupportedCmp(filters[k])
             THEN [err |-> "Unsupported operator", out |-> <<>>, calls |-> valid.calls]
           ELSE The({ The({ [err |-> FirstError(parentResults.err, results.err),
                             out |-> IF FirstError(parentResults.err, results.err) = NoError
                                       THEN results.out ELSE <<>>,
                             calls |-> valid.calls
                                         \o <<Call("select", parentTable, clauses)>>
                                         \o results.calls] :
                            results \in {FetchEach(d, parentResults.rows, q.table, 2, 1)} }) :
                      clauses \in {BuildAll(<<>>, filters, parentTable, 1)},
                      parentResults \in {Select(d, parentTable,
                                           BuildAll(<<>>, filters, parentTable, 1),
                                           q.sort, q.limit, q.page)} })

----------------------------------------------------------------------------
(* CoreDBPlus.query *)

WherePlus(field, cmp, value) == [field |-> field, cmp |-> cmp, value |-> value]

\* rewriteQuery: a field/cmp/value comparison becomes a left/cmp/right one,
\* its field qualified with the table unless it has a qualifier; any other
\* leaf is returned as it is
RECURSIVE rewriteQuery(_, _)
rewriteQuery(w, tableName) ==
  IF IsOr(w)
    THEN [Or |-> [i \in 1..Len(w.Or) |-> rewriteQuery(w.Or[i], tableName)]]
  ELSE IF IsAnd(w)
    THEN [And |-> [i \in 1..Len(w.And) |-> rewriteQuery(w.And[i], tableName)]]
  ELSE IF {"field", "cmp", "value"} \subseteq DOMAIN w
    THEN Cmp(IF Len(w.field) > 1 THEN w.field ELSE <<tableName>> \o w.field,
             w.cmp, w.value)
  ELSE w

\* the query object after the loop that rewrites every table's filter
RewrittenQuery(q) ==
  [q EXCEPT !.table = [i \in 1..Len(q.table) |->
      IF q.table[i].query = NoWhere THEN q.table[i]
      ELSE TableQuery(q.table[i].table, rewriteQuery(q.table[i].query, q.table[i].table))]]

\* CoreDBPlus.query: rewrite, then CoreDB.query
queryPlus(d, q) == query(d, RewrittenQuery(q))

----------------------------------------------------------------------------
(* SQLDBPlus.buildWhereSQL *)
(*                                                                          *)
(* The SQL text it returns is kept as its structure: a comparison            *)
(* `field operator ?`, the children of a node each in parentheses and       *)
(* joined by AND or OR, or the empty text.                                  *)

SqlEmpty == [sql |-> "empty"]

SqlCmp(field, operator, value) ==
  [sql |-> "cmp", field |-> field, operator |-> operator, value |-> value]

\* parts.join(" AND ") / parts.join(" OR "): no text for no parts
SqlJoin(word, parts) ==
  IF parts = <<>> THEN SqlEmpty ELSE [sql |-> word, parts |-> parts]

\* buildWhereSQL(where, tableName): the whereSql, or the error it throws
RECURSIVE buildWhereSQL(_, _)
buildWhereSQL(where, tableName) ==
  IF IsOr(where)
    THEN SqlJoin("OR", [i \in 1..Len(where.Or) |-> buildWhereSQL(where.Or[i], tableName)])
  ELSE IF IsAnd(where)
    THEN SqlJoin("AND", [i \in 1..Len(where.And) |-> buildWhereSQL(where.And[i], tableName)])
  ELSE IF {"field", "cmp", "value"} \subseteq DOMAIN where
    THEN IF where.cmp \notin SupportedCmp THEN [sql |-> "Unsupported operator"]
         ELSE IF where.cmp \in {"in", "nin"} /\ IsNotArray(where)
           THEN [sql |-> "IN operator requires an array value"]
         ELSE SqlCmp(where.field, SqlOperator(where.cmp), where.value)
  ELSE SqlEmpty

\* the errors buildWhereSQL throws
SqlThrown == {"Unsupported operator", "IN operator requires an array value"}

\* the error the text has, as thrown by the compiler or found by SQLite:
\* an empty text, alone or between parentheses, is not an expression
RECURSIVE SqlError(_)
SqlError(e) ==
  IF e.sql \in SqlThrown THEN e.sql
  ELSE IF e.sql = "empty" THEN "syntax error"
  ELSE IF e.sql = "cmp" THEN NoError
  ELSE IF \E i \in 1..Len(e.parts) : SqlError(e.parts[i]) \in SqlThrown
    THEN SqlError(e.parts[CHOOSE i \in 1..Len(e.parts) :
                            /\ SqlError(e.parts[i]) \in SqlThrown
                            /\ \A j \in 1..(i - 1) : SqlError(e.parts[j]) \notin SqlThrown])
  ELSE IF \E i \in 1..Len(e.parts) : SqlError(e.parts[i]) # NoError THEN "syntax error"
  ELSE NoError

\* the value of the text on a row
RECURSIVE SqlValue(_, _, _, _)
SqlValue(d, t, e, r) ==
  IF e.sql = "cmp" THEN EvalBasic(d, t, Basic("and", e.field, e.operator, e.value), r)
  ELSE LET RECURSIVE Fold(_)
           Fold(i) ==
             IF i = Len(e.parts) THEN SqlValue(d, t, e.parts[i], r)
             ELSE IF e.sql = "AND" THEN And3(SqlValue(d, t, e.parts[i], r), Fold(i + 1))
             ELSE Or3(SqlValue(d, t, e.parts[i], r), Fold(i + 1))
       IN  Fold(1)

\* SELECT * FROM t WHERE whereSql
SelectWhere(d, t, e) ==
  IF SqlError(e) # NoError THEN [err |-> SqlError(e), rows |-> <<>>]
  ELSE LET rows == SelectSeq(d[t].rows, LAMBDA r : SqlValue(d, t, e, r) = "T")
       IN  [err |-> NoError, rows |-> [i \in 1..Len(rows) |-> RowObject(d[t], rows[i])]]

----------------------------------------------------------------------------
(* The calls a program makes, as actions *)

NoCall ==
  [op |-> "none", arg |-> <<>>, err |-> NoError, ddl |-> <<>>,
   before |-> EmptyDB, out |-> <<>>]

Summary(l) == [op |-> l.op, arg |-> l.arg, err |-> l.err]

Field(name, type, required, defaultValue, indexed, foreignTable) ==
  [name |-> name, type |-> type, required |-> required,
   defaultValue |-> defaultValue, indexed |-> indexed, foreignTable |-> foreignTable]

Plain(name, type) == Field(name, type, FALSE, NoDefault, NotIndexed, NoTable)

Definition(name, fields) == [name |-> name, fields |-> fields]

\* the table definitions the schema specification calls with
UsersDefs ==
  { Definition("users", <<Plain("name", "Text"), Plain("age", "Integer")>>),
    Definition("users", <<Plain("name", "Text"), Plain("age", "Text")>>),
    Definition("users", <<Plain("age", "Text"), Plain("name", "Text")>>),
    Definition("users", <<Plain("name", "Text"), Plain("tag", "UUID")>>),
    Definition("users", <<Plain("name", "Text"),
                          Field("age", "Integer", TRUE, NoDefault, NotIndexed, NoTable)>>),
    Definition("users", <<Plain("name", "Text"),
                          Field("age", "Integer", FALSE, "1", "Unique", NoTable)>>),
    Definition("users", <<Plain("name", "Text"), Plain("nick", "Text"),
                          Plain("bad", "InvalidType")>>),
    Definition("users", <<Plain("bad", "InvalidType"), Plain("name", "Text")>>) }

\* the values an insert gives a column
InsertVals == {NULL, Val(1)}

SchemaCreateOrUpdate(D) ==
  /\ schemaCalls < MaxCalls
  /\ LET st == schemaCreateOrUpdate(db, D)
     IN  /\ db' = st.db
         /\ last' = [op |-> "schemaCreateOrUpdate", arg |-> D, err |-> st.err,
                     ddl |-> st.ddl, before |-> db, out |-> <<>>]
  /\ prev' = Summary(last)
  /\ schemaCalls' = schemaCalls + 1
  /\ UNCHANGED txvars

\* the data of an insert that names every column but id
FullData(t) == [Range(ColNames(db[t])) \ {"id"} -> InsertVals]

Insert(t) ==
  /\ HasTable(db, t)
  /\ Len(db[t].rows) < MaxRows
  /\ \E data \in FullData(t) :
       LET r == insert(db, t, data)
       IN  /\ db' = r.db
           /\ last' = [op |-> "insert", arg |-> <<t, data>>, err |-> r.err,
                       ddl |-> <<>>, before |-> db, out |-> <<r.id>>]
  /\ prev' = Summary(last)
  /\ UNCHANGED schemaCalls
  /\ UNCHANGED txvars

InitSchema ==
  /\ db = EmptyDB
  /\ last = NoCall
  /\ prev = Summary(NoCall)
  /\ schemaCalls = 0
  /\ NoTransaction

NextSchema ==
  \/ \E D \in UsersDefs : SchemaCreateOrUpdate(D)
  \/ Insert("users")

SpecSchema == InitSchema /\ [][NextSchema]_vars

----------------------------------------------------------------------------
(* schemaConnect on two tables: the specification SpecConnect *)

AuthorsDef == Definition("authors", <<Plain("name", "Text")>>)

\* the child table as a program may have created it before it connects:
\* without the column, with a plain integer column of the expected name,
\* with a reference to authors under a name that differs in case, and with
\* a plain column under that name
BooksDefs ==
  { Definition("books", <<Plain("title", "Text")>>),
    Definition("books", <<Plain("title", "Text"), Plain("authorsId", "Integer")>>),
    Definition("books", <<Plain("title", "Text"),
                          Field("AuthorsId", "ReferenceManyToOne", FALSE, NoDefault,
                                NotIndexed, "authors")>>),
    Definition("books", <<Plain("title", "Text"), Plain("AuthorsId", "Integer")>>) }

\* the connections asked for: the real one, and one each with a parent and
\* with a child that does not exist
ConnectPairs == {<<"authors", "books">>, <<"ghosts", "books">>, <<"authors", "ghosts">>}

\* the data of an insert that names the reference columns only
KeyData(t) == [Range(ColNames(db[t])) \ {"id", "name", "title"} -> InsertVals]

InsertKeys(t) ==
  /\ HasTable(db, t)
  /\ Len(db[t].rows) < MaxRows
  /\ \E data \in KeyData(t) :
       LET r == insert(db, t, data)
       IN  /\ db' = r.db
           /\ last' = [op |-> "insert", arg |-> <<t, data>>, err |-> r.err,
                       ddl |-> <<>>, before |-> db, out |-> <<r.id>>]
  /\ prev' = Summary(last)
  /\ UNCHANGED schemaCalls
  /\ UNCHANGED txvars

SchemaConnect(parentName, childName) ==
  /\ schemaCalls < MaxConnects
  /\ LET st == schemaConnect(db, parentName, childName)
     IN  /\ db' = st.db
         /\ last' = [op |-> "schemaConnect", arg |-> <<parentName, childName>>,
                     err |-> st.err, ddl |-> st.ddl, before |-> db, out |-> <<>>]
  /\ prev' = Summary(last)
  /\ schemaCalls' = schemaCalls + 1
  /\ UNCHANGED txvars

InitConnect ==
  /\ \E D \in BooksDefs :
       db = schemaCreateOrUpdate(schemaCreateOrUpdate(EmptyDB, AuthorsDef).db, D).db
  /\ last = NoCall
  /\ prev = Summary(NoCall)
  /\ schemaCalls = 0
  /\ NoTransaction

NextConnect ==
  \/ \E pc \in ConnectPairs : SchemaConnect(pc[1], pc[2])
  \/ \E t \in {"authors", "books"} : InsertKeys(t)

SpecConnect == InitConnect /\ [][NextConnect]_vars

----------------------------------------------------------------------------
(* Claims about schemaCreateOrUpdate, checked under SpecSchema *)

IsSchemaCall(l) == l.op = "schemaCreateOrUpdate"

\* the fields of D whose column exists in d and fails the column-match check
ChangedFields(d, D) ==
  {f \in Range(D.fields) :
     /\ getKnexFieldType(f.type) \notin {"", Unsupported}
     /\ f.name \in DOMAIN ColumnInfo(d, D.name)
     /\ ~ColumnMatches(d, D.name, f, ColumnInfo(d, D.name)[f.name])}

\* the fields of D that have no column in d
NewFields(d, D) ==
  {f \in Range(D.fields) :
     /\ getKnexFieldType(f.type) \notin {"", Unsupported}
     /\ f.name \notin DOMAIN ColumnInfo(d, D.name)}

\* C1: a schemaCreateOrUpdate(D) that immediately follows a successful
\* schemaCreateOrUpdate(D) with the same D issues no DDL statement and
\* leaves every row of every table unchanged.
C1_SecondCallIssuesNoDDL ==
  (/\ IsSchemaCall(last)
   /\ IsSchemaCall(prev)
   /\ prev.err = NoError
   /\ prev.arg = last.arg)
  => (last.ddl = <<>> /\ db = last.before)

\* the value row r of table tbl holds in the column named c
Cell(tbl, r, c) == r[ColIndex(tbl, c)]

\* C2: a schemaCreateOrUpdate on an existing table with rows, whose
\* definition changes exactly one field's stored type, nullability or
\* default, completes; the table then holds the same number of rows, and
\* every row keeps its id and its values in all the other columns.
C2_RebuildCompletesAndKeepsRows ==
  (/\ IsSchemaCall(last)
   /\ HasTable(last.before, last.arg.name)
   /\ last.before[last.arg.name].rows # <<>>
   /\ Cardinality(ChangedFields(last.before, last.arg)) = 1
   /\ NewFields(last.before, last.arg) = {}
   /\ \A f \in Range(last.arg.fields) : getKnexFieldType(f.type) # Unsupported)
  => LET t == last.arg.name
         old == last.before[t]
         changed == CHOOSE f \in ChangedFields(last.before, last.arg) : TRUE
     IN  /\ last.err = NoError
         /\ HasTable(db, t)
         /\ Len(db[t].rows) = Len(old.rows)
         /\ \A i \in 1..Len(old.rows) :
              \A c \in Range(ColNames(old)) \ {changed.name} :
                 /\ c \in Range(ColNames(db[t]))
                 /\ Cell(db[t], db[t].rows[i], c) = Cell(old, old.rows[i], c)

\* C10: a schemaCreateOrUpdate(D) whose D holds a field of unsupported type
\* fails with the unsupported-type error and issues no DDL, so the database
\* is as before the call, whether the table is absent or exists.
C10_UnsupportedTypeIssuesNoDDL ==
  (/\ IsSchemaCall(last)
   /\ \E f \in Range(last.arg.fields) : getKnexFieldType(f.type) = Unsupported)
  => (/\ last.err = "Unsupported field type"
      /\ last.ddl = <<>>
      /\ db = last.before)

----------------------------------------------------------------------------
(* Claims about schemaConnect, checked under SpecConnect *)

IsConnectCall(l) == l.op = "schemaConnect"

RepeatedConnect ==
  /\ IsConnectCall(last) /\ IsConnectCall(prev)
  /\ prev.err = NoError /\ prev.arg = last.arg

\* C6: a schemaConnect(P, C) that immediately follows a successful
\* schemaConnect(P, C) drops no column, adds no column, raises no error and
\* leaves the columns, foreign keys and rows of every table unchanged.
C6_SecondConnectIsNoOp ==
  RepeatedConnect => (last.err = NoError /\ last.ddl = <<>> /\ db = last.before)

\* a repeated connect of books to authors while a book row stores the id of
\* its author in the foreign-key column
C6_Witness ==
  /\ RepeatedConnect
  /\ last.arg = <<"authors", "books">>
  /\ \E fk \in getForeignKeys(db, "books") : fk.from = "authorsId" /\ fk.table = "authors"
  /\ \E i \in 1..Len(db["books"].rows) :
        db["books"].rows[i][ColIndex(db["books"], "authorsId")] = Val(1)

----------------------------------------------------------------------------
(* Queries on a chain of three tables: the specification SpecJoin *)

RankDef(t) == Definition(t, <<Plain("rank", "Integer")>>)

\* the tables the program creates, one call after the other: pub_houses,
\* authors and books, each with an integer column rank
PubHousesOnly == schemaCreateOrUpdate(EmptyDB, RankDef("pub_houses")).db

WithAuthors == schemaCreateOrUpdate(PubHousesOnly, RankDef("authors")).db

RankTables == schemaCreateOrUpdate(WithAuthors, RankDef("books")).db

\* and after it has connected them into the chain pub_houses > authors > books
AuthorsConnected == schemaConnect(RankTables, "pub_houses", "authors").db

ChainTables == schemaConnect(AuthorsConnected, "authors", "books").db

TotalRows(d) == Len(d["pub_houses"].rows) + Len(d["authors"].rows) + Len(d["books"].rows)

\* the data of an insert into a table of the chain: a rank, and an id or
\* nothing for every other column
RowData(t) ==
  {data \in [Range(ColNames(db[t])) \ {"id"} -> {NULL, Val(1), Val(2)}] :
     data["rank"] # NULL}

InsertRow(t) ==
  /\ TotalRows(db) < MaxJoinRows
  /\ \E data \in RowData(t) :
       LET r == insert(db, t, data)
       IN  /\ db' = r.db
           /\ last' = [op |-> "insert", arg |-> <<t, data>>, err |-> r.err,
                       ddl |-> <<>>, before |-> db, out |-> <<r.id>>]
  /\ UNCHANGED <<prev, schemaCalls>>
  /\ UNCHANGED txvars

Plainly(tables) == Query(tables, NoWhere, <<>>, 0, 0)

T(t) == TableQuery(t, NoWhere)

RankIs(n) == Cmp(<<"rank">>, "eq", n)

\* a filter with an Or on top, and one with an And on top
FirstOrSecondRank == [Or |-> <<RankIs(2), Cmp(<<"id">>, "eq", 1)>>]

RankedLater == [And |-> <<Cmp(<<"rank">>, "gte", 1), Cmp(<<"id">>, "neq", 1)>>]

\* chains without filters
PlainQueries ==
  { Plainly(<<T("pub_houses")>>),
    Plainly(<<T("pub_houses"), T("authors")>>),
    Plainly(<<T("authors"), T("books")>>),
    Plainly(<<T("pub_houses"), T("authors"), T("books")>>),
    Plainly(<<T("books"), T("authors")>>),
    Plainly(<<T("pub_houses"), T("books")>>),
    Plainly(<<T("authors"), T("books"), T("authors")>>) }

\* chains with filters of unqualified fields on some entries, and with a
\* global filter
FilteredQueries ==
  { Plainly(<<T("authors"), TableQuery("books", RankIs(1))>>),
    Plainly(<<T("authors"), TableQuery("books", FirstOrSecondRank)>>),
    Plainly(<<T("pub_houses"), T("authors"), TableQuery("books", FirstOrSecondRank)>>),
    Plainly(<<T("pub_houses"), TableQuery("authors", RankedLater),
              TableQuery("books", RankIs(1))>>),
    Query(<<T("authors"), T("books")>>, FirstOrSecondRank, <<>>, 0, 0),
    Query(<<TableQuery("authors", RankIs(1)), TableQuery("books", RankIs(1))>>,
          FirstOrSecondRank, <<>>, 0, 0) }

\* filters whose field names carry the table already
QualifiedQueries ==
  { Plainly(<<TableQuery("authors", Cmp(<<"authors", "rank">>, "eq", 1))>>),
    Plainly(<<T("authors"), TableQuery("books", Cmp(<<"books", "rank">>, "eq", 1))>>) }

ByRank(direction) == [fieldId |-> "rank", direction |-> direction]

\* queries with a sort list, a limit and a page, or some of them
PagedQueries ==
  { Query(<<T("authors"), T("books")>>, NoWhere, <<ByRank("desc")>>, 1, 1),
    Query(<<T("authors"), T("books")>>, NoWhere, <<ByRank("asc")>>, 1, 2),
    Query(<<T("authors"), T("books")>>, NoWhere,
          <<ByRank("desc"), [fieldId |-> "id", direction |-> "desc"]>>, 2, 0),
    Query(<<T("authors"), T("books")>>, NoWhere, <<ByRank("desc")>>, 0, 2),
    Query(<<TableQuery("books", FirstOrSecondRank)>>, NoWhere, <<ByRank("asc")>>, 2, 1) }

CoreQueries == PlainQueries \cup FilteredQueries \cup QualifiedQueries \cup PagedQueries

\* queries in the field/cmp/value form of CoreDBPlus
PlusQueries ==
  { Plainly(<<TableQuery("authors", WherePlus(<<"rank">>, "eq", 1))>>),
    Plainly(<<T("authors"),
              TableQuery("books", WherePlus(<<"books", "rank">>, "eq", 1))>>),
    Plainly(<<TableQuery("authors",
                [Or |-> <<WherePlus(<<"rank">>, "eq", 2), WherePlus(<<"id">>, "eq", 1)>>])>>),
    Plainly(<<TableQuery("authors", RankIs(1))>>) }

\* CoreDB.query; `after` is the caller's query object when the call is over
QueryCall(q) ==
  /\ \E r \in {query(db, q)} :
       last' = [op |-> "query", arg |-> q, err |-> r.err, ddl |-> <<>>,
                before |-> db, out |-> r.out, calls |-> r.calls, after |-> q]
  /\ UNCHANGED <<db, prev, schemaCalls>>
  /\ UNCHANGED txvars

\* CoreDBPlus.query, which assigns the rewritten filter to every entry of
\* the caller's query object before it calls CoreDB.query
QueryPlusCall(q) ==
  /\ \E r \in {queryPlus(db, q)} :
       last' = [op |-> "queryPlus", arg |-> q, err |-> r.err, ddl |-> <<>>,
                before |-> db, out |-> r.out, calls |-> r.calls,
                after |-> RewrittenQuery(q)]
  /\ UNCHANGED <<db, prev, schemaCalls>>
  /\ UNCHANGED txvars

InitJoin ==
  /\ db = ChainTables
  /\ last = NoCall
  /\ prev = Summary(NoCall)
  /\ schemaCalls = 0
  /\ NoTransaction

NextJoin ==
  \/ \E t \in {"pub_houses", "authors", "books"} : InsertRow(t)
  \/ \E q \in CoreQueries : QueryCall(q)
  \/ \E q \in PlusQueries : QueryPlusCall(q)

SpecJoin == InitJoin /\ [][NextJoin]_vars

----------------------------------------------------------------------------
(* Filters on one table: the specification SpecFilter *)

UsersTable ==
  schemaCreateOrUpdate(EmptyDB, Definition("users", <<Plain("age", "Integer")>>)).db

InsertUser ==
  /\ Len(db["users"].rows) < MaxUsers
  /\ \E age \in {NULL, Val(1), Val(2)} :
       LET data == [c \in {"age"} |-> age]
           r == insert(db, "users", data)
       IN  /\ db' = r.db
           /\ last' = [op |-> "insert", arg |-> <<"users", data>>, err |-> r.err,
                       ddl |-> <<>>, before |-> db, out |-> <<r.id>>]
  /\ UNCHANGED <<prev, schemaCalls>>
  /\ UNCHANGED txvars

\* the comparisons of the filters
AgeIs == Cmp(<<"age">>, "eq", 1)

AgeIsNot == Cmp(<<"age">>, "neq", 1)

IdIn == Cmp(<<"id">>, "in", <<1, 3>>)

Leaves == {AgeIs, AgeIsNot, IdIn}

\* And and Or of two different comparisons
Groups ==
  UNION {{[And |-> p], [Or |-> p]} : p \in {q \in Leaves \X Leaves : q[1] # q[2]}}

OnUsers(w, global) == Query(<<TableQuery("users", w)>>, global, <<>>, 0, 0)

\* the queries a program sends: a comparison, an And of two, an Or with an
\* And in it, and a filter on the table together with a global filter
UserQueries ==
  { OnUsers(AgeIsNot, NoWhere),
    OnUsers([And |-> <<AgeIsNot, IdIn>>], NoWhere),
    OnUsers([Or |-> <<[And |-> <<AgeIs, IdIn>>], AgeIsNot>>], NoWhere),
    OnUsers([Or |-> <<AgeIs, AgeIsNot>>], IdIn) }

\* the same comparison in the field/cmp/value form
RECURSIVE AsPlus(_)
AsPlus(w) ==
  IF IsOr(w) THEN [Or |-> [i \in 1..Len(w.Or) |-> AsPlus(w.Or[i])]]
  ELSE IF IsAnd(w) THEN [And |-> [i \in 1..Len(w.And) |-> AsPlus(w.And[i])]]
  ELSE IF IsNotArray(w) THEN NotArray(WherePlus(w.left, w.cmp, w.right))
  ELSE WherePlus(w.left, w.cmp, w.right)

\* the filters buildWhereSQL is called with: a tree in the field/cmp/value
\* form, and a comparison in the left/cmp/right form
SqlFilters ==
  { AsPlus([Or |-> <<[And |-> <<AgeIs, IdIn>>], AgeIsNot>>]), AgeIs }

\* buildWhereSQL on a filter, and the rows its text selects from users
BuildWhereSQL(w) ==
  /\ \E e \in {buildWhereSQL(w, "users")} :
       \E r \in {SelectWhere(db, "users", e)} :
          last' = [op |-> "buildWhereSQL", arg |-> w, err |-> r.err, ddl |-> <<>>,
                   before |-> db, out |-> r.rows, calls |-> <<e>>]
  /\ UNCHANGED <<db, prev, schemaCalls>>
  /\ UNCHANGED txvars

InitFilter ==
  /\ db = UsersTable
  /\ last = NoCall
  /\ prev = Summary(NoCall)
  /\ schemaCalls = 0
  /\ NoTransaction

NextFilter ==
  \/ InsertUser
  \/ \E q \in UserQueries : QueryCall(q)
  \/ \E w \in SqlFilters : BuildWhereSQL(w)

SpecFilter == InitFilter /\ [][NextFilter]_vars

----------------------------------------------------------------------------
(* Claims about query on a chain, checked under SpecJoin *)

IsQuery(l) == l.op = "query"

Columns(d, t) == Range(ColNames(d[t]))

\* the rows of a table as records
RowsOf(d, t) == {RowObject(d[t], d[t].rows[k]) : k \in 1..Len(d[t].rows)}

\* every table of the chain after the first has the column named after the
\* table before it
Connected(d, chain) ==
  \A i \in 2..Len(chain) :
     ForeignKeyField(chain[i - 1].table) \in Columns(d, chain[i].table)

\* the first entry of the chain whose table lacks that column
FirstUnconnected(d, chain) ==
  CHOOSE i \in 2..Len(chain) :
     /\ ForeignKeyField(chain[i - 1].table) \notin Columns(d, chain[i].table)
     /\ \A j \in 2..(i - 1) :
           ForeignKeyField(chain[j - 1].table) \in Columns(d, chain[j].table)

\* a filter of supported comparisons on unqualified fields, whose And and Or
\* nodes all have children
RECURSIVE PlainFilter(_)
PlainFilter(w) ==
  IF IsOr(w) THEN w.Or # <<>> /\ \A i \in 1..Len(w.Or) : PlainFilter(w.Or[i])
  ELSE IF IsAnd(w) THEN w.And # <<>> /\ \A i \in 1..Len(w.And) : PlainFilter(w.And[i])
  ELSE {"left", "cmp", "right"} \subseteq DOMAIN w /\ Len(w.left) = 1
       /\ w.cmp \in {"eq", "neq", "gt", "gte", "lt", "lte", "in", "nin"}

\* the meaning of a filter on a row: a comparison with a missing value is
\* not satisfied, And is conjunction, Or is disjunction
RECURSIVE Meets(_, _)
Meets(obj, w) ==
  IF w = NoWhere THEN TRUE
  ELSE IF IsOr(w) THEN \E i \in 1..Len(w.Or) : Meets(obj, w.Or[i])
  ELSE IF IsAnd(w) THEN \A i \in 1..Len(w.And) : Meets(obj, w.And[i])
  ELSE LET cell == obj[w.left[1]]
       IN  /\ cell # NULL
           /\ CASE w.cmp = "eq" -> cell[1] = w.right
                [] w.cmp = "neq" -> cell[1] # w.right
                [] w.cmp = "gt" -> cell[1] > w.right
                [] w.cmp = "gte" -> cell[1] >= w.right
                [] w.cmp = "lt" -> cell[1] < w.right
                [] w.cmp = "lte" -> cell[1] <= w.right
                [] w.cmp = "in" -> cell[1] \in Range(w.right)
                [] w.cmp = "nin" -> cell[1] \notin Range(w.right)

\* the records objs of the i-th table of the chain are one per row of
\* `expected`, and each carries, under the name of the next table, the
\* records of the rows that refer to it and meet the filter of that entry,
\* joined in the same way; a record of the last table has its columns only
RECURSIVE Joined(_, _, _, _, _)
Joined(d, chain, i, objs, expected) ==
  LET t == chain[i].table
  IN  /\ Len(objs) = Cardinality(expected)
      /\ {[c \in Columns(d, t) |-> objs[k][c]] : k \in 1..Len(objs)} = expected
      /\ \A k \in 1..Len(objs) :
           IF i = Len(chain) THEN DOMAIN objs[k] = Columns(d, t)
           ELSE LET child == chain[i + 1].table
                    fk == ForeignKeyField(t)
                IN  /\ DOMAIN objs[k] = Columns(d, t) \cup {child}
                    /\ Joined(d, chain, i + 1, objs[k][child],
                              {r \in RowsOf(d, child) :
                                 r[fk] = objs[k].id /\ Meets(r, chain[i + 1].query)})

\* the root rows a query asks for: those that meet the filter of the first
\* entry and the global filter
RootRows(d, q) ==
  {r \in RowsOf(d, q.table[1].table) : Meets(r, q.table[1].query) /\ Meets(r, q.query)}

Unfiltered(q) ==
  q.query = NoWhere /\ \A i \in 1..Len(q.table) : q.table[i].query = NoWhere

PlainlyFiltered(q) ==
  /\ ~Unfiltered(q)
  /\ q.query = NoWhere \/ PlainFilter(q.query)
  /\ \A i \in 1..Len(q.table) : q.table[i].query = NoWhere \/ PlainFilter(q.table[i].query)

\* C3: a query on a connected chain without filters, sort or limit returns
\* one record per row of the first table; every record carries under the
\* name of the next table exactly the rows whose foreign key is its id (an
\* empty array when there is none), the same at every depth, and the
\* records of the last table carry no child key.
C3_JoinShape ==
  (/\ IsQuery(last) /\ Unfiltered(last.arg) /\ last.arg.limit = 0
   /\ Connected(db, last.arg.table))
  => /\ last.err = NoError
     /\ Joined(db, last.arg.table, 1, last.out, RowsOf(db, last.arg.table[1].table))

\* the three-table chain, with two publishers of which the second has an
\* author, who has no book
C3_Witness ==
  /\ IsQuery(last) /\ Unfiltered(last.arg) /\ Len(last.arg.table) = 3
  /\ last.err = NoError /\ Len(last.out) = 2
  /\ last.out[1]["authors"] = <<>>
  /\ Len(last.out[2]["authors"]) = 1
  /\ last.out[2]["authors"][1]["books"] = <<>>

\* C4: with filters on chain entries (supported comparisons on unqualified
\* fields, And and Or nodes with children), every record of depth d-1
\* carries exactly the rows of entry d whose foreign key is its id and that
\* meet the filter of entry d; the root records are exactly the root rows
\* that meet the root entry's filter and the global filter, whether or not
\* they have children left.
C4_PerLevelFiltering ==
  (/\ IsQuery(last) /\ PlainlyFiltered(last.arg) /\ last.arg.limit = 0
   /\ Connected(db, last.arg.table))
  => /\ last.err = NoError
     /\ Joined(db, last.arg.table, 1, last.out, RootRows(db, last.arg))

\* a filter with an Or on top on the child entry, an author who has a book
\* and is returned with an empty array because the filter rejects the book
C4_Witness ==
  /\ IsQuery(last)
  /\ last.arg = Plainly(<<T("authors"), TableQuery("books", FirstOrSecondRank)>>)
  /\ last.err = NoError
  /\ \E k \in 1..Len(last.out) :
        /\ last.out[k]["books"] = <<>>
        /\ \E r \in RowsOf(db, "books") : r["authorsId"] = last.out[k].id

\* C5: a query on a chain in which some table lacks the column named after
\* the table before it fails with the error that names the child table, the
\* expected column and the parent table of the first such pair, after
\* columnInfo calls only: no select reaches the backend and nothing is
\* returned.
C5_MissingForeignKeyRejected ==
  (IsQuery(last) /\ last.arg.table # <<>> /\ ~Connected(db, last.arg.table))
  => LET chain == last.arg.table
         i == FirstUnconnected(db, chain)
     IN  /\ last.err = MissingForeignKey(chain[i].table,
                                         ForeignKeyField(chain[i - 1].table),
                                         chain[i - 1].table)
         /\ last.out = <<>>
         /\ Len(last.calls) = i - 1
         /\ \A k \in 1..Len(last.calls) : last.calls[k].op = "columnInfo"

\* books before authors, the reverse of the connection, with a row in each
C5_Witness ==
  /\ IsQuery(last)
  /\ last.arg = Plainly(<<T("books"), T("authors")>>)
  /\ last.err = "No foreign key connection found: Table 'authors' must have a foreign key 'booksId' referencing 'books'"
  /\ db["books"].rows # <<>> /\ db["authors"].rows # <<>>


\* row a comes before row b by the sort list: by the first field on which
\* they differ (a missing value is the smallest), and by id when they
\* differ on none
RECURSIVE ComesBefore(_, _, _, _)
ComesBefore(sort, k, a, b) ==
  IF k > Len(sort) THEN a.id[1] < b.id[1]
  ELSE LET x == a[sort[k].fieldId]
           y == b[sort[k].fieldId]
           less(u, v) == IF u = NULL THEN v # NULL ELSE v # NULL /\ u[1] < v[1]
       IN  IF x = y THEN ComesBefore(sort, k + 1, a, b)
           ELSE IF sort[k].direction = "asc" THEN less(x, y) ELSE less(y, x)

\* the rows of a set in the order of the sort list
Sorted(rows, sort) ==
  CHOOSE seq \in [1..Cardinality(rows) -> rows] :
     \A i, j \in 1..Cardinality(rows) : i < j => ComesBefore(sort, 1, seq[i], seq[j])

\* the page of a sequence: all of it without a limit
PageOf(seq, limit, page) ==
  IF limit = 0 THEN seq
  ELSE LET first == IF page = 0 THEN 1 ELSE (page - 1) * limit + 1
       IN  [k \in 1..(IF Len(seq) - first + 1 < 0 THEN 0
                      ELSE IF Len(seq) - first + 1 < limit THEN Len(seq) - first + 1
                      ELSE limit) |-> seq[first + k - 1]]

\* the records under every child key are in the order of their ids
RECURSIVE ChildrenById(_, _, _)
ChildrenById(chain, i, obj) ==
  i = Len(chain)
  \/ LET children == obj[chain[i + 1].table]
     IN  /\ \A j, k \in 1..Len(children) : j < k => children[j].id[1] < children[k].id[1]
         /\ \A k \in 1..Len(children) : ChildrenById(chain, i + 1, children[k])

IsPaged(q) == q.sort # <<>> \/ q.limit # 0 \/ q.page # 0

\* C12: a query with a sort list, limit L and page p on a connected chain
\* returns the root rows at positions (p-1)*L+1 .. p*L of the filtered root
\* rows in the order of the sort list, all of them in that order when no
\* limit is given (with or without a page); every record carries all its
\* child rows, in the order of their ids, at every depth.
C12_RootOnlyOrderingAndPagination ==
  (/\ IsQuery(last) /\ IsPaged(last.arg)
   /\ Connected(db, last.arg.table))
  => LET q == last.arg
         t == q.table[1].table
         page == PageOf(Sorted(RootRows(db, q), q.sort), q.limit, q.page)
     IN  /\ last.err = NoError
         /\ [k \in 1..Len(last.out) |-> [c \in Columns(db, t) |-> last.out[k][c]]] = page
         /\ Joined(db, q.table, 1, last.out, Range(page))
         /\ \A k \in 1..Len(last.out) : ChildrenById(q.table, 1, last.out[k])

\* sorted by falling rank and limited to one, the query returns the author
\* of the higher rank, who is the second of two, with the book written by
\* that author
C12_Witness ==
  /\ IsQuery(last)
  /\ last.arg = Query(<<T("authors"), T("books")>>, NoWhere, <<ByRank("desc")>>, 1, 1)
  /\ last.err = NoError
  /\ Len(db["authors"].rows) = 2
  /\ Len(last.out) = 1 /\ last.out[1].id = Val(2)
  /\ Len(last.out[1]["books"]) = 1

\* the positions of the selects among the calls that the backend rejects
FailedSelects(d, calls) ==
  {k \in 1..Len(calls) :
     /\ calls[k].op = "select"
     /\ Select(d, calls[k].table, calls[k].where, <<>>, 0, 0).err # NoError}

\* C17: a query in which the validation of the chain or a select of the
\* backend, for the root table or for the children of any row at any depth,
\* fails, fails with the error of the first failed call and returns nothing.
C17_NoPartialTrees ==
  IsQuery(last) =>
    LET failed == FailedSelects(db, last.calls)
        first == CHOOSE k \in failed : \A j \in failed : k <= j
    IN  /\ (failed # {} \/ ~Connected(db, last.arg.table) \/ last.err # NoError)
           => last.err # NoError /\ last.out = <<>>
        /\ failed # {} =>
             last.err = Select(db, last.calls[first].table, last.calls[first].where,
                               <<>>, 0, 0).err

\* the select of the books failed for each of two authors, after the select
\* of the authors had returned them
C17_Witness ==
  /\ IsQuery(last)
  /\ last.arg = Plainly(<<T("authors"), TableQuery("books", Cmp(<<"books", "rank">>, "eq", 1))>>)
  /\ Len(db["authors"].rows) = 2
  /\ Cardinality(FailedSelects(db, last.calls)) = 2
  /\ last.err = "no such column"
  /\ last.out = <<>>

\* the field names of the comparisons of a filter, in either form
RECURSIVE LeafFields(_)
LeafFields(w) ==
  IF w = NoWhere THEN {}
  ELSE IF IsOr(w) THEN UNION {LeafFields(w.Or[i]) : i \in 1..Len(w.Or)}
  ELSE IF IsAnd(w) THEN UNION {LeafFields(w.And[i]) : i \in 1..Len(w.And)}
  ELSE IF "field" \in DOMAIN w THEN {w.field}
  ELSE {w.left}

\* the columns named by the clauses of a select
RECURSIVE ClauseColumns(_)
ClauseColumns(clauses) ==
  UNION {IF clauses[i].type = "wrapped" THEN ClauseColumns(clauses[i].sub)
         ELSE {clauses[i].column} : i \in 1..Len(clauses)}

\* table.field for a field without a qualifier, the field for one with
QualifiedOnce(field, t) == IF Len(field) > 1 THEN field ELSE <<t>> \o field

\* the columns that the select on entry i of a query is to name: the
\* foreign key (but for the root), and the fields of the entry's filter
\* (and, for the root, of the global filter) qualified once
ExpectedColumns(q, i) ==
  LET t == q.table[i].table
  IN  (IF i = 1 THEN {QualifiedOnce(f, t) : f \in LeafFields(q.query)}
       ELSE {<<ForeignKeyField(q.table[i - 1].table)>>})
      \cup {QualifiedOnce(f, t) : f \in LeafFields(q.table[i].query)}

\* C9: in every select that query or CoreDBPlus.query sends to the backend,
\* a comparison on an unqualified field names table.field and a comparison
\* on a field that carries a qualifier names that field unchanged.
C9_FieldsQualifiedOnce ==
  (last.op \in {"query", "queryPlus"})
  => \A k \in 1..Len(last.calls) :
        last.calls[k].op = "select"
        => \E i \in 1..Len(last.arg.table) :
              /\ last.arg.table[i].table = last.calls[k].table
              /\ ClauseColumns(last.calls[k].where) = ExpectedColumns(last.arg, i)

----------------------------------------------------------------------------
(* Claims about the compiled predicate, checked under SpecFilter *)

\* the answer of a failed call, which holds no id of a row
Failed == {Val(0)}

IdsOf(records) == {records[k].id : k \in 1..Len(records)}

\* the ids of the users a query returns
Selected(d, q) ==
  The({IF r.err = NoError THEN IdsOf(r.out) ELSE Failed : r \in {query(d, q)}})

\* the ids of the users the text of buildWhereSQL selects
SqlSelected(d, w) ==
  The({IF r.err = NoError THEN IdsOf(r.rows) ELSE Failed :
       r \in {SelectWhere(d, "users", buildWhereSQL(w, "users"))}})

Intersection(sets) == {x \in UNION sets : \A S \in sets : x \in S}

\* the child lists of the nodes: one comparison, two operands of which one
\* at least is a comparison (the other may be an And or Or of two), and
\* three different comparisons
Operands == Leaves \cup Groups

ChildLists ==
  {<<a>> : a \in Leaves}
    \cup {p \in Operands \X Operands : p[1] \in Leaves \/ p[2] \in Leaves}
    \cup {t \in Leaves \X Leaves \X Leaves : t[1] # t[2] /\ t[2] # t[3] /\ t[1] # t[3]}

\* what every operand selects, by query and by the text of buildWhereSQL
SelectedBy(d) == [w \in Operands |-> Selected(d, OnUsers(w, NoWhere))]

SqlSelectedBy(d) == [w \in Operands |-> SqlSelected(d, AsPlus(w))]

AllIds(d) == {r.id : r \in RowsOf(d, "users")}

\* the ids of the users a query with filter w rejects
Rejected(d, w) == AllIds(d) \ Selected(d, OnUsers(w, NoWhere))

\* C8: on every data set and for any two comparisons A and B, the rows that
\* And([A, B]) rejects are the rows that A rejects together with the rows
\* that B rejects (the union of the two sets), so that the rows it keeps
\* are those that both keep.
C8_AndRejectsUnion ==
  \A a \in Leaves, b \in Leaves :
     /\ Selected(db, OnUsers([And |-> <<a, b>>], NoWhere)) # Failed
     /\ Rejected(db, [And |-> <<a, b>>]) = Rejected(db, a) \cup Rejected(db, b)

\* C8 as the spec states it: the rows that And([A, B]) rejects are the rows
\* that both A and B reject (the intersection of the two sets).
C8_AndRejectsIntersection ==
  \A a \in Leaves, b \in Leaves :
     Rejected(db, [And |-> <<a, b>>]) = Rejected(db, a) \cap Rejected(db, b)

\* the query with And of two comparisons has run on users of which one is
\* rejected by the first comparison only and one by the second only
C8_Witness ==
  /\ IsQuery(last)
  /\ last.arg = OnUsers([And |-> <<AgeIsNot, IdIn>>], NoWhere)
  /\ last.err = NoError
  /\ Rejected(db, AgeIsNot) \ Rejected(db, IdIn) # {}
  /\ Rejected(db, IdIn) \ Rejected(db, AgeIsNot) # {}
  /\ IdsOf(last.out) = AllIds(db) \ (Rejected(db, AgeIsNot) \cup Rejected(db, IdIn))

----------------------------------------------------------------------------
(* Tables with declared unique indexes: the specification SpecIndex *)

\* a table definition with compound indexes
DefinitionWith(name, fields, compoundIndexes) ==
  [name |-> name, fields |-> fields, compoundIndexes |-> compoundIndexes]

\* items: the name is unique by the field's own index
ItemsDef ==
  DefinitionWith("items",
    <<Field("name", "Text", FALSE, NoDefault, "Unique", NoTable)>>, <<>>)

\* products: category and sku are unique together by a compound index
ProductsDef ==
  DefinitionWith("products",
    <<Plain("category", "Text"), Plain("sku", "Text")>>,
    <<[fields |-> <<"category", "sku">>, type |-> "Unique"]>>)

\* a table with an integer column, and the same with the column indexed
CountersDef == DefinitionWith("counters", <<Plain("n", "Integer")>>, <<>>)

CountersIndexedDef ==
  DefinitionWith("counters",
                 <<Field("n", "Integer", FALSE, NoDefault, "Default", NoTable)>>, <<>>)

IndexDefs == {ItemsDef, ProductsDef, CountersDef, CountersIndexedDef}

InsertInto(t) ==
  /\ HasTable(db, t)
  /\ Len(db[t].rows) < MaxProducts
  /\ \E data \in [Range(ColNames(db[t])) \ {"id"} -> {Val(1), Val(2)}] :
       LET r == insert(db, t, data)
       IN  /\ db' = r.db
           /\ last' = [op |-> "insert", arg |-> <<t, data>>, err |-> r.err,
                       ddl |-> <<>>, before |-> db, out |-> <<r.id>>]
  /\ UNCHANGED <<prev, schemaCalls>>
  /\ UNCHANGED txvars

InitIndex ==
  /\ db = EmptyDB
  /\ last = NoCall
  /\ prev = Summary(NoCall)
  /\ schemaCalls = 0
  /\ NoTransaction

NextIndex ==
  \/ \E D \in IndexDefs : SchemaCreateOrUpdate(D)
  \/ \E t \in {"items", "products"} : InsertInto(t)

SpecIndex == InitIndex /\ [][NextIndex]_vars

----------------------------------------------------------------------------
(* Claims about declared indexes, checked under SpecIndex *)

\* the lists of fields a definition declares unique
DeclaredUnique(D) ==
  {<<D.fields[i].name>> : i \in {j \in 1..Len(D.fields) : D.fields[j].indexed = "Unique"}}
    \cup {D.compoundIndexes[i].fields :
            i \in {j \in 1..Len(D.compoundIndexes) : D.compoundIndexes[j].type = "Unique"}}

\* the data equal an existing row of the table on every field of some list
\* that the table's definition declares unique
RepeatsUnique(d, t, data) ==
  \E D \in IndexDefs :
     /\ D.name = t
     /\ \E F \in DeclaredUnique(D) : \E r \in RowsOf(d, t) :
           \A i \in 1..Len(F) : r[F[i]] = data[F[i]]

\* C11: an insert into a table created from a definition that declares a
\* unique index is rejected and adds no row when its values equal those of
\* an existing row on all fields of the index, and is accepted otherwise.
C11_UniqueIndexEnforced ==
  (last.op = "insert")
  => IF RepeatsUnique(last.before, last.arg[1], last.arg[2])
       THEN last.err # NoError /\ db = last.before
     ELSE last.err = NoError
          /\ Len(db[last.arg[1]].rows) = Len(last.before[last.arg[1]].rows) + 1

----------------------------------------------------------------------------
(* SQLDBPlus: tables, inserts and transactions, the specification SpecSql *)

\* most rows the users table holds
MaxSqlRows == 2

\* most inserts issued inside one transaction
MaxTxInserts == 2

getSQLiteType(fieldType) ==
  CASE fieldType \in {"Text", "Password", "UUID", "Enum"} -> "TEXT"
    [] fieldType \in {"Integer", "ID"} -> "INTEGER"
    [] fieldType \in {"Currency", "Float", "Double", "Decimal"} -> "REAL"
    [] fieldType \in {"Datetime", "Time", "Date", "CreatedAt", "UpdatedAt"} -> "TEXT"
    [] fieldType = "Boolean" -> "INTEGER"
    [] fieldType = "Binary" -> "BLOB"
    [] fieldType \in {"ReferenceOneToOne", "ReferenceManyToOne"} -> "INTEGER"
    [] fieldType \in {"ReferenceOneToMany", "ReferenceManyToMany"} -> ""
    [] OTHER -> "TEXT"

\* the column definition of a field: type, NOT NULL, DEFAULT, UNIQUE
getSQLiteFieldDefinition(field) ==
  [name |-> field.name, type |-> getSQLiteType(field.type),
   notnull |-> field.required, dflt |-> field.defaultValue, fk |-> NoTable,
   unique |-> field.indexed = "Unique"]

\* CREATE TABLE IF NOT EXISTS name (id INTEGER PRIMARY KEY AUTOINCREMENT,
\* a column definition per field)
generateCreateTableSQL(tableDefinition) ==
  [table |-> tableDefinition.name,
   ifNotExists |-> TRUE,
   columns |-> [i \in 1..Len(tableDefinition.fields) |->
                  getSQLiteFieldDefinition(tableDefinition.fields[i])]]

\* SQLite's CREATE TABLE: a UNIQUE column gets an automatic unique index
ExecCreateTable(d, sql) ==
  IF HasTable(d, sql.table)
    THEN [db |-> d, err |-> IF sql.ifNotExists THEN NoError ELSE "table already exists"]
  ELSE LET uniques == {i \in 1..Len(sql.columns) : sql.columns[i].unique}
       IN [db |-> Put(d, sql.table,
                    [cols |-> <<IdColumn>> \o
                                [i \in 1..Len(sql.columns) |->
                                   [c \in {"name", "type", "notnull", "dflt", "fk"} |->
                                      sql.columns[i][c]]],
                     rows |-> <<>>,
                     idx |-> {[name |-> "sqlite_autoindex_" \o sql.table \o "_" \o sql.columns[i].name,
                               col |-> sql.columns[i].name, unique |-> TRUE] : i \in uniques},
                     seq |-> 0]),
           err |-> NoError]

\* SQLDBPlus.createTable
createTable(d, tableDefinition) == ExecCreateTable(d, generateCreateTableSQL(tableDefinition))

\* SQLDBPlus.insert: INSERT INTO t (the keys of data) VALUES (its values),
\* then SELECT last_insert_rowid()
insertSql(d, t, data) ==
  IF ~HasTable(d, t) \/ ~(DOMAIN data \subseteq Range(ColNames(d[t])))
    THEN [db |-> d, err |-> "no such table or column", id |-> 0]
  ELSE LET row == NewRow(d[t], data)
       IN  IF RowViolates(d, d[t].cols, row) \/ UniqueViolated(d[t], row)
             THEN [db |-> d, err |-> "constraint failed", id |-> 0]
           ELSE [db |-> [d EXCEPT ![t].rows = Append(@, row), ![t].seq = NextId(d[t])],
                 err |-> NoError, id |-> NextId(d[t])]

\* a ROLLBACK that undoes nothing
KeepsChanges(d, j) == d

\* what ROLLBACK leaves of database d when j was the database at BEGIN
Rollback(d, j) == j

\* the definitions of the tests of createTable: users, and users with one
\* more field
UserTableDef ==
  Definition("users", <<Field("name", "Text", TRUE, NoDefault, NotIndexed, NoTable),
                        Field("email", "Text", FALSE, NoDefault, "Unique", NoTable)>>)

UpdatedTableDef ==
  Definition("users", UserTableDef.fields \o <<Plain("phone", "Text")>>)

SqlDefs == {UserTableDef, UpdatedTableDef}

\* the data of the inserts: a name with one of two emails, no name, and a
\* name with an email and a phone number
SqlData ==
  { [name |-> Val(1), email |-> Val(1)],
    [name |-> Val(1), email |-> Val(2)],
    [name |-> NULL, email |-> Val(1)],
    [name |-> Val(1), email |-> Val(1), phone |-> Val(1)] }

SqlCall(op, arg, err, statements, out) ==
  [op |-> op, arg |-> arg, err |-> err, ddl |-> statements, before |-> db, out |-> out]

CreateTableSql(D) ==
  /\ \E r \in {createTable(db, D)} :
       /\ db' = r.db
       /\ last' = SqlCall("createTable", D, r.err, <<"CREATE TABLE IF NOT EXISTS">>, <<>>)
  /\ UNCHANGED <<prev, schemaCalls, txvars>>

\* a startTransaction that does not look at the transactionOpen flag
BeginAlways(ac) ==
  /\ last' = SqlCall("startTransaction", ac, NoError, <<"BEGIN TRANSACTION">>, <<>>)
  /\ journal' = db
  /\ transactionOpen' = TRUE
  /\ autoCommit' = ac
  /\ UNCHANGED wrapper
  /\ txlog' = <<>>
  /\ UNCHANGED <<db, prev, schemaCalls, lastInsertRowid, callers>>

\* startTransaction(autoCommit): nothing when a transaction is open
StartTransaction(ac) ==
  /\ IF transactionOpen
       THEN /\ last' = SqlCall("startTransaction", ac, NoError, <<>>, <<>>)
            /\ UNCHANGED txvars
     ELSE /\ last' = SqlCall("startTransaction", ac, NoError, <<"BEGIN TRANSACTION">>, <<>>)
          /\ journal' = db
          /\ transactionOpen' = TRUE
          /\ autoCommit' = ac
          /\ UNCHANGED wrapper
          /\ txlog' = <<>>
          /\ UNCHANGED <<lastInsertRowid, callers>>
  /\ UNCHANGED <<db, prev, schemaCalls>>

SqlInsert(data) ==
  /\ HasTable(db, "users") => Len(db["users"].rows) < MaxSqlRows
  /\ transactionOpen => Len(txlog) < MaxTxInserts
  /\ \E r \in {insertSql(db, "users", data)} :
       /\ db' = r.db
       /\ last' = SqlCall("insert", <<"users", data>>, r.err, <<"INSERT">>, <<r.id>>)
       /\ txlog' = IF transactionOpen
                     THEN Append(txlog, [table |-> "users", data |-> data,
                                         id |-> r.id, err |-> r.err])
                   ELSE txlog
       /\ lastInsertRowid' = IF r.err = NoError THEN r.id ELSE lastInsertRowid
  /\ UNCHANGED <<prev, schemaCalls, transactionOpen, autoCommit, wrapper, journal, callers>>

\* COMMIT and ROLLBACK as commitTransaction, rollbackTransaction and
\* releaseTransaction send them
Commit(op) ==
  /\ last' = SqlCall(op, <<>>, NoError, <<"COMMIT">>, <<>>)
  /\ transactionOpen' = FALSE
  /\ journal' = EmptyDB
  /\ UNCHANGED <<db, prev, schemaCalls, autoCommit, wrapper, txlog, lastInsertRowid, callers>>

RollbackTo(op) ==
  /\ last' = SqlCall(op, <<>>, NoError, <<"ROLLBACK">>, <<>>)
  /\ db' = Rollback(db, journal)
  /\ transactionOpen' = FALSE
  /\ journal' = EmptyDB
  /\ UNCHANGED <<prev, schemaCalls, autoCommit, wrapper, txlog, lastInsertRowid, callers>>

NotInTransaction(op) ==
  /\ last' = SqlCall(op, <<>>, "Not in a transaction", <<>>, <<>>)
  /\ UNCHANGED <<db, prev, schemaCalls, txvars>>

CommitTransaction ==
  IF ~transactionOpen THEN NotInTransaction("commitTransaction")
  ELSE Commit("commitTransaction")

RollbackTransaction ==
  IF ~transactionOpen THEN NotInTransaction("rollbackTransaction")
  ELSE RollbackTo("rollbackTransaction")

ReleaseTransaction ==
  IF ~transactionOpen
    THEN /\ last' = SqlCall("releaseTransaction", <<>>, NoError, <<>>, <<>>)
         /\ UNCHANGED <<db, prev, schemaCalls, txvars>>
  ELSE IF autoCommit THEN Commit("releaseTransaction")
  ELSE RollbackTo("releaseTransaction")

InitSql ==
  /\ db = EmptyDB
  /\ last = NoCall
  /\ prev = Summary(NoCall)
  /\ schemaCalls = 0
  /\ NoTransaction

NextSql ==
  \/ \E D \in SqlDefs : CreateTableSql(D)
  \/ \E ac \in BOOLEAN : StartTransaction(ac)
  \/ \E data \in SqlData : SqlInsert(data)
  \/ CommitTransaction
  \/ RollbackTransaction
  \/ ReleaseTransaction

SpecSql == InitSql /\ [][NextSql]_vars

----------------------------------------------------------------------------
(* Claims about SQLDBPlus, checked under SpecSql *)

\* the last call ended a transaction by sending the statement
Ended(statement) ==
  /\ last.op \in {"commitTransaction", "rollbackTransaction", "releaseTransaction"}
  /\ last.err = NoError
  /\ last.ddl = <<statement>>

\* the inserts of the transaction that returned an id
InsertedInTransaction == {k \in 1..Len(txlog) : txlog[k].err = NoError}

\* a select on the table returns a row with the id and the values of data
Visible(d, t, id, data) ==
  /\ HasTable(d, t)
  /\ \E r \in RowsOf(d, t) :
        r.id = Val(id) /\ \A c \in DOMAIN data : r[c] = data[c]

HasAllButLastField(d, D) ==
  /\ HasTable(d, D.name)
  /\ ColNames(d[D.name]) =
       <<"id">> \o [i \in 1..(Len(D.fields) - 1) |-> D.fields[i].name]

\* C16: createTable with the definition of an existing table plus one more
\* field succeeds, the table then has a column for that field, and each row
\* holds the values it held before.
C16_CreateTableAddsNewField ==
  (last.op = "createTable" /\ HasAllButLastField(last.before, last.arg))
  => LET t == last.arg.name
         added == last.arg.fields[Len(last.arg.fields)].name
     IN  /\ last.err = NoError
         /\ added \in Range(ColNames(db[t]))
         /\ Len(db[t].rows) = Len(last.before[t].rows)
         /\ \A k \in 1..Len(db[t].rows) : \A i \in 1..Len(last.before[t].cols) :
               db[t].rows[k][i] = last.before[t].rows[k][i]

----------------------------------------------------------------------------
(* Rows of two related tables: the specification SpecData *)

\* largest id a table hands out to an inserted row
MaxIds == 1

\* books related to authors by schemaConnect
ConnectedBooks ==
  schemaConnect(
    schemaCreateOrUpdate(schemaCreateOrUpdate(EmptyDB, AuthorsDef).db,
                         Definition("books", <<Plain("title", "Text")>>)).db,
    "authors", "books").db

\* books related to authors by a ReferenceManyToOne field
ReferencingBooks ==
  schemaCreateOrUpdate(
    schemaCreateOrUpdate(EmptyDB, AuthorsDef).db,
    Definition("books", <<Plain("title", "Text"),
                          Field("authorsId", "ReferenceManyToOne", FALSE, NoDefault,
                                NotIndexed, "authors")>>)).db

\* the ids the calls name: those of the rows and one that no insert gives
Ids == {Val(i) : i \in 1..(MaxIds + 1)}

\* the data of a call: a name for an author, an author or none for a book
DataFor(t) ==
  IF t = "authors" THEN {[name |-> Val(1)]}
  ELSE {[authorsId |-> v] : v \in {NULL} \cup Ids}

\* the same data naming the row as well
WithId(data, id) == [c \in DOMAIN data \cup {"id"} |-> IF c = "id" THEN id ELSE data[c]]

DataCall(op, arg, r, out) ==
  [op |-> op, arg |-> arg, err |-> r.err, ddl |-> <<>>, before |-> db, out |-> out]

InsertData(t) ==
  /\ NextId(db[t]) <= MaxIds
  /\ \E data \in DataFor(t) : \E r \in {insert(db, t, data)} :
       /\ db' = r.db
       /\ last' = DataCall("insert", <<t, data>>, r, <<r.id>>)
  /\ UNCHANGED <<prev, schemaCalls, txvars>>

\* update with the data of a row, or with another id for it
UpdateData(t) ==
  /\ \E id \in 1..(MaxIds + 1) : \E data \in DataFor(t) \cup {[id |-> v] : v \in Ids} :
       \E r \in {update(db, t, id, data)} :
          /\ db' = r.db
          /\ last' = DataCall("update", <<t, id, data>>, r, <<>>)
  /\ UNCHANGED <<prev, schemaCalls, txvars>>

UpsertData(t) ==
  /\ \E data \in DataFor(t) \cup {WithId(x[1], x[2]) : x \in DataFor(t) \X Ids} :
       /\ "id" \notin DOMAIN data => NextId(db[t]) <= MaxIds
       /\ \E r \in {upsert(db, t, data)} :
            /\ db' = r.db
            /\ last' = DataCall("upsert", <<t, data>>, r, <<r.id>>)
  /\ UNCHANGED <<prev, schemaCalls, txvars>>

DeleteData(t) ==
  /\ \E ids \in {{i} : i \in 1..(MaxIds + 1)} : \E r \in {delete(db, t, ids)} :
       /\ db' = r.db
       /\ last' = DataCall("delete", <<t, ids>>, r, <<>>)
  /\ UNCHANGED <<prev, schemaCalls, txvars>>

InitData ==
  /\ db \in {ConnectedBooks, ReferencingBooks}
  /\ last = NoCall
  /\ prev = Summary(NoCall)
  /\ schemaCalls = 0
  /\ NoTransaction

NextData ==
  \E t \in {"authors", "books"} :
     \/ InsertData(t)
     \/ UpdateData(t)
     \/ UpsertData(t)
     \/ DeleteData(t)

SpecData == InitData /\ [][NextData]_vars

----------------------------------------------------------------------------
(* Claims about rows, checked under SpecData *)

\* C14: after upsert(table, data) has returned an id the table has a row
\* with that id that holds the values of data; when data.id names a row of
\* the table the number of rows is unchanged and the id returned is
\* data.id, otherwise the table has one row more.
C14_UpsertUpdatesOrInserts ==
  (last.op = "upsert" /\ last.err = NoError)
  => LET t == last.arg[1]
         data == last.arg[2]
         id == last.out[1]
         existed == /\ "id" \in DOMAIN data
                    /\ \E r \in RowsOf(last.before, t) : r.id = data.id
     IN  /\ \E r \in RowsOf(db, t) :
               r.id = Val(id) /\ \A c \in DOMAIN data \ {"id"} : r[c] = data[c]
         /\ IF existed
              THEN Len(db[t].rows) = Len(last.before[t].rows) /\ Val(id) = data.id
            ELSE Len(db[t].rows) = Len(last.before[t].rows) + 1

\* the references of the database: child table, position of the column,
\* parent table
References(d) ==
  {<<x[1], x[2], d[x[1]].cols[x[2]].fk>> :
     x \in {y \in UNION {{c} \X (1..Len(d[c].cols)) : c \in DOMAIN d} :
              d[y[1]].cols[y[2]].fk # NoTable}}

\* every reference of every row is null or the id of a row of the parent
Intact(d) ==
  \A x \in References(d) : \A r \in Range(d[x[1]].rows) :
     r[x[2]] = NULL \/ (HasTable(d, x[3]) /\ r[x[2]][1] \in Range(RowIds(d[x[3]])))

\* the data of an insert name a parent row that does not exist
NamesMissingParent(d, t, data) ==
  \E x \in References(d) :
     /\ x[1] = t
     /\ d[t].cols[x[2]].name \in DOMAIN data
     /\ data[d[t].cols[x[2]].name] # NULL
     /\ data[d[t].cols[x[2]].name][1] \notin Range(RowIds(d[x[3]]))

\* C18: with books related to authors, in every state reached by insert,
\* update, upsert and delete each book's reference is null or the id of an
\* existing author; an insert that names an author that does not exist
\* fails with 'Foreign key constraint failed' and inserts nothing; after a
\* delete of authors no book is left that referenced one of them.
C18_ReferentialIntegrity ==
  /\ References(db) # {}
  /\ Intact(db)
  /\ (last.op = "insert" /\ NamesMissingParent(last.before, last.arg[1], last.arg[2]))
     => last.err = "Foreign key constraint failed" /\ db = last.before
  /\ (last.op = "delete" /\ last.err = NoError)
     => \A x \in References(last.before) :
          x[3] = last.arg[1] =>
            \A r \in Range(last.before[x[1]].rows) :
               (r[x[2]] # NULL /\ r[x[2]][1] \in last.arg[2]) => r \notin Range(db[x[1]].rows)

\* the author of a book was deleted, and the book with the author
C18_Witness ==
  /\ last.op = "delete"
  /\ last.arg = <<"authors", {1}>>
  /\ \E r \in RowsOf(last.before, "books") : r["authorsId"] = Val(1)
  /\ RowsOf(last.before, "authors") # {}
  /\ db["books"].rows = <<>>

----------------------------------------------------------------------------
(* Claims about reconciled indexes, checked under SpecIndex *)

\* C15: after schemaCreateOrUpdate(D) has returned without error on a table
\* that existed, the table has an index of the declared name for every
\* field of D that is declared indexed.
C15_MissingIndexesAdded ==
  (/\ IsSchemaCall(last) /\ last.err = NoError
   /\ HasTable(last.before, last.arg.name))
  => \A f \in Range(last.arg.fields) :
        f.indexed # NotIndexed => IndexName(last.arg.name, f) \in IndexNames(db, last.arg.name)

----------------------------------------------------------------------------
(* Filters with operands and nodes of special shape: the specification     *)
(* SpecOperand                                                             *)

\* in and nin with a number where the list belongs
IdInOne == NotArray(Cmp(<<"id">>, "in", 1))

IdNotInOne == NotArray(Cmp(<<"id">>, "nin", 1))

\* filters with an And or Or that has no child: alone, in an Or, in an And
EmptyAnd == [And |-> <<>>]

EmptyOr == [Or |-> <<>>]

EmptyInOr == [Or |-> <<EmptyAnd, AgeIs>>]

EmptyInAnd == [And |-> <<AgeIs, EmptyOr>>]

OperandFilters == {IdInOne, IdNotInOne, EmptyAnd, EmptyOr, EmptyInOr, EmptyInAnd}

OperandQueries == {OnUsers(w, NoWhere) : w \in OperandFilters} \cup {OnUsers(AgeIs, EmptyAnd)}

NextOperand ==
  \/ InsertUser
  \/ \E q \in OperandQueries : QueryCall(q)
  \/ \E w \in OperandFilters : BuildWhereSQL(AsPlus(w))

SpecOperand == InitFilter /\ [][NextOperand]_vars

----------------------------------------------------------------------------
(* Claims about operands and empty nodes, checked under SpecOperand *)

\* some comparison of the filter has in or nin with an operand that is no
\* list
RECURSIVE HasListlessIn(_)
HasListlessIn(w) ==
  IF w = NoWhere THEN FALSE
  ELSE IF IsOr(w) THEN \E i \in 1..Len(w.Or) : HasListlessIn(w.Or[i])
  ELSE IF IsAnd(w) THEN \E i \in 1..Len(w.And) : HasListlessIn(w.And[i])
  ELSE w.cmp \in {"in", "nin"} /\ IsNotArray(w)

\* C19: a query whose filter has in or nin with an operand that is no list
\* fails without a select reaching the backend, and buildWhereSQL throws
\* its error for such a comparison.
C19_ListOperandRequired ==
  /\ (IsQuery(last) /\ HasListlessIn(last.arg.table[1].query))
     => /\ last.err # NoError
        /\ \A k \in 1..Len(last.calls) : last.calls[k].op # "select"
  /\ (last.op = "buildWhereSQL" /\ HasListlessIn(last.arg))
     => /\ last.err = "IN operator requires an array value"
        /\ last.calls[1].sql = "IN operator requires an array value"

\* the node is an And or Or without children
IsEmptyNode(w) == (IsOr(w) /\ w.Or = <<>>) \/ (IsAnd(w) /\ w.And = <<>>)

RECURSIVE HasEmptyNode(_)
HasEmptyNode(w) ==
  IF w = NoWhere THEN FALSE
  ELSE IF IsOr(w) THEN w.Or = <<>> \/ \E i \in 1..Len(w.Or) : HasEmptyNode(w.Or[i])
  ELSE IF IsAnd(w) THEN w.And = <<>> \/ \E i \in 1..Len(w.And) : HasEmptyNode(w.And[i])
  ELSE FALSE

\* the filter without its empty nodes (of the filters of the model, whose
\* empty nodes are the filter itself or a child of it)
WithoutEmptyNodes(w) ==
  IF IsEmptyNode(w) THEN NoWhere
  ELSE IF IsOr(w) THEN [Or |-> SelectSeq(w.Or, LAMBDA c : ~IsEmptyNode(c))]
  ELSE IF IsAnd(w) THEN [And |-> SelectSeq(w.And, LAMBDA c : ~IsEmptyNode(c))]
  ELSE w

\* the ids of the users a filter in the field/cmp/value form is to select
SqlExpected(d, w) ==
  IF w = NoWhere THEN {r.id : r \in RowsOf(d, "users")} ELSE SqlSelected(d, AsPlus(w))

\* C20: a query, and a select with the text of buildWhereSQL, whose filter
\* has an And or Or without children succeeds and returns the rows that the
\* same filter without that node returns.
C20_EmptyCombinatorsAcceptAll ==
  /\ (IsQuery(last) /\ \E w \in {last.arg.table[1].query, last.arg.query} : HasEmptyNode(w))
     => /\ last.err = NoError
        /\ IdsOf(last.out) =
             Selected(db, OnUsers(WithoutEmptyNodes(last.arg.table[1].query),
                                  WithoutEmptyNodes(last.arg.query)))
  /\ (last.op = "buildWhereSQL" /\ \E w \in OperandFilters : HasEmptyNode(w) /\ last.arg = AsPlus(w))
     => /\ last.err = NoError
        /\ \A w \in {x \in OperandFilters : last.arg = AsPlus(x)} :
              IdsOf(last.out) = SqlExpected(db, WithoutEmptyNodes(w))

----------------------------------------------------------------------------
(* SQLDBPlus.query *)

\* the record of a row of a product: the values of b, and those of a under
\* the column names b does not have
Merged(a, b) ==
  [k \in DOMAIN a \cup DOMAIN b |-> IF k \in DOMAIN b THEN b[k] ELSE a[k]]

\* the rows of FROM t_i, ..., t_n: one record per combination of their rows
RECURSIVE FromTables(_, _, _)
FromTables(d, from, i) ==
  IF i > Len(from) THEN << <<>> >>
  ELSE LET tbl == d[from[i]]
           rest == FromTables(d, from, i + 1)
           n == Len(rest)
       IN  [k \in 1..(Len(tbl.rows) * n) |->
              Merged(RowObject(tbl, tbl.rows[((k - 1) \div n) + 1]),
                     rest[((k - 1) % n) + 1])]

\* the rows of the first table with every combination of the other tables'
RowsJoined(d, from, rootRows) ==
  LET rest == FromTables(d, from, 2)
      n == Len(rest)
  IN  [k \in 1..(Len(rootRows) * n) |->
         Merged(RowObject(d[from[1]], rootRows[((k - 1) \div n) + 1]),
                rest[((k - 1) % n) + 1])]

\* buildQuerySQL: SELECT * FROM the tables of the chain separated by commas,
\* WHERE the text of the first entry's filter when it has one, ORDER BY,
\* LIMIT and OFFSET; the global filter and the other entries' filters are
\* not looked at
buildQuerySQL(q) ==
  [from |-> [i \in 1..Len(q.table) |-> q.table[i].table],
   where |-> IF q.table # <<>> /\ q.table[1].query # NoWhere
               THEN <<buildWhereSQL(q.table[1].query, q.table[1].table)>>
               ELSE <<>>,
   sort |-> q.sort, limit |-> q.limit, page |-> q.page]

\* the tables of the statement that have a column of the name
TablesWith(d, from, c) ==
  {i \in 1..Len(from) : Resolve(d, from[i], <<c>>) # 0}

\* querySql on the statement: the error of the compiler or of SQLite, or
\* the records of the rows
ExecSelect(d, s) ==
  IF s.where # <<>> /\ SqlError(s.where[1]) # NoError
    THEN [err |-> SqlError(s.where[1]), rows |-> <<>>]
  ELSE IF s.from = <<>> THEN [err |-> "syntax error", rows |-> <<>>]
  ELSE IF \E i \in 1..Len(s.from) : ~HasTable(d, s.from[i])
    THEN [err |-> "no such table", rows |-> <<>>]
  ELSE IF \E k \in 1..Len(s.sort) : TablesWith(d, s.from, s.sort[k].fieldId) = {}
    THEN [err |-> "no such column", rows |-> <<>>]
  ELSE IF \E k \in 1..Len(s.sort) : TablesWith(d, s.from, s.sort[k].fieldId) # {1}
    THEN [err |-> "ambiguous column name", rows |-> <<>>]
  ELSE LET t == s.from[1]
           kept == IF s.where = <<>> THEN d[t].rows
                   ELSE SelectSeq(d[t].rows, LAMBDA r : SqlValue(d, t, s.where[1], r) = "T")
       IN  [err |-> NoError,
            rows |-> LimitPage(RowsJoined(d, s.from, OrderBy(d, t, kept, s.sort)),
                               s.limit, s.page)]

\* SQLDBPlus.query: the filters of the caller's query object are rewritten
\* in place, the statement is built from the rewritten object and sent
querySql(d, q) ==
  The({ The({ [err |-> r.err, out |-> r.rows, calls |-> <<s>>, after |-> rq] :
              r \in {ExecSelect(d, s)} }) :
        rq \in {RewrittenQuery(q)}, s \in {buildQuerySQL(RewrittenQuery(q))} })

----------------------------------------------------------------------------
(* The three query entry points on the chain authors > books: the          *)
(* specification SpecBackends                                               *)

RankPlus(n) == WherePlus(<<"rank">>, "eq", n)

\* a comparison whose operator no compiler knows
RankMatches == Cmp(<<"rank">>, "regex", 1)

\* the queries sent to CoreDB.query: without filter, with filters, and with
\* the unknown operator in the filter of the root, of the child, and in the
\* global filter
BackendQueries ==
  { Plainly(<<T("authors")>>),
    Plainly(<<T("authors"), T("books")>>),
    Plainly(<<TableQuery("authors", RankIs(1)), TableQuery("books", FirstOrSecondRank)>>),
    Plainly(<<TableQuery("authors", RankMatches)>>),
    Plainly(<<TableQuery("authors", RankMatches), T("books")>>),
    Plainly(<<T("authors"), TableQuery("books", RankMatches)>>),
    Plainly(<<T("authors"), TableQuery("books", [And |-> <<RankIs(1), RankMatches>>])>>),
    Query(<<T("authors")>>, RankMatches, <<>>, 0, 0) }

\* the queries sent to CoreDBPlus.query and to SQLDBPlus.query
BackendPlusQueries ==
  { Plainly(<<T("authors")>>),
    Plainly(<<T("authors"), T("books")>>),
    Query(<<T("authors")>>, NoWhere, <<ByRank("desc")>>, 1, 0),
    Plainly(<<TableQuery("authors", RankPlus(1))>>),
    Plainly(<<TableQuery("authors", [Or |-> <<RankPlus(1), RankPlus(2)>>])>>),
    Plainly(<<T("authors"), TableQuery("books", RankPlus(1))>>),
    Plainly(<<TableQuery("authors", RankIs(1)), T("books")>>) }

\* SQLDBPlus.query
QuerySqlCall(q) ==
  /\ \E r \in {querySql(db, q)} :
       last' = [op |-> "querySql", arg |-> q, err |-> r.err, ddl |-> <<>>,
                before |-> db, out |-> r.out, calls |-> r.calls, after |-> r.after]
  /\ UNCHANGED <<db, prev, schemaCalls>>
  /\ UNCHANGED txvars

NextBackends ==
  \/ \E t \in {"authors", "books"} : InsertRow(t)
  \/ \E q \in BackendQueries : QueryCall(q)
  \/ \E q \in BackendPlusQueries : QueryPlusCall(q)
  \/ \E q \in BackendPlusQueries : QuerySqlCall(q)

SpecBackends == InitJoin /\ [][NextBackends]_vars

\* C21: when CoreDB.query, CoreDBPlus.query or SQLDBPlus.query is over, the
\* caller's query object, with the filter of every entry, is equal to what
\* it was before the call.
C21_CallerQueryUnchanged ==
  last.op \in {"query", "queryPlus", "querySql"} => last.after = last.arg

\* the filters a query carries: the global one and that of every entry
FiltersOf(q) ==
  ({q.query} \cup {q.table[i].query : i \in 1..Len(q.table)}) \ {NoWhere}

\* C22: a query with a comparison of an unsupported operator in any of its
\* filters fails with the unsupported-operator error, and no call has gone
\* to the backend before it fails, whatever rows the tables hold.
C22_UnsupportedOperatorFailsFast ==
  (IsQuery(last) /\ \E w \in FiltersOf(last.arg) : HasUnsupportedCmp(w))
  => /\ last.err = "Unsupported operator"
     /\ last.calls = <<>>

\* the result of CoreDBPlus.query on the database and the query of a call
PlusResult(l) == queryPlus(l.before, l.arg)

\* C23: SQLDBPlus.query returns what CoreDBPlus.query returns for the same
\* query on the same data: the same error or none, and one record per root
\* row with its children in a list under the child table's name, every
\* entry's filter applied at its own level.
C23_SqlQueryEqualsPlusQuery ==
  last.op = "querySql"
  => \E r \in {PlusResult(last)} : last.err = r.err /\ last.out = r.out

----------------------------------------------------------------------------
(* The transaction statements of SQLDBPlus, under SpecSql *)

TransactionCalls ==
  {"startTransaction", "commitTransaction", "rollbackTransaction", "releaseTransaction"}

\* the call sent BEGIN, or one of COMMIT and ROLLBACK
SentBegin(l) == l.op \in TransactionCalls /\ l.ddl = <<"BEGIN TRANSACTION">>

SentEnd(l) == l.op \in TransactionCalls /\ l.ddl \in {<<"COMMIT">>, <<"ROLLBACK">>}

\* C24: of the transaction calls on one instance, made one after the other,
\* BEGIN is sent only while no transaction is open and COMMIT or ROLLBACK
\* only while one is open, so that the statements alternate; a nested
\* startTransaction sends nothing, commitTransaction and rollbackTransaction
\* without a transaction fail with 'Not in a transaction' and
\* releaseTransaction then does nothing; the transactionOpen flag turns
\* true with BEGIN, false with COMMIT or ROLLBACK and at no other call.
C24_TransactionStatementsAlternate ==
  [][ /\ SentBegin(last') => (~transactionOpen /\ transactionOpen')
      /\ SentEnd(last') => (transactionOpen /\ ~transactionOpen')
      /\ (transactionOpen' # transactionOpen) => (SentBegin(last') \/ SentEnd(last'))
      /\ (last'.op = "startTransaction" /\ transactionOpen)
         => (last'.ddl = <<>> /\ last'.err = NoError)
      /\ (last'.op \in {"commitTransaction", "rollbackTransaction"} /\ ~transactionOpen)
         => (last'.ddl = <<>> /\ last'.err = "Not in a transaction")
      /\ (last'.op = "releaseTransaction" /\ ~transactionOpen)
         => (last'.ddl = <<>> /\ last'.err = NoError)
      /\ (last'.op \in TransactionCalls /\ last'.ddl = <<>>) => db' = db
    ]_vars

\* a startTransaction inside an open transaction has returned
C24_Witness ==
  /\ last.op = "startTransaction"
  /\ last.ddl = <<>>
  /\ transactionOpen
  /\ txlog # <<>>

----------------------------------------------------------------------------
(* Two callers of one SQLDBPlus instance: the specification SpecCallers.   *)
(* A call runs up to its next await in one step; insert awaits the INSERT  *)
(* statement and then the lookup of last_insert_rowid(), so that the other *)
(* caller's calls can run between the two.  The transaction calls are      *)
(* awaited by their callers one at a time.                                  *)

UsersCreated == createTable(EmptyDB, UserTableDef).db

\* the data of the callers' inserts: a name, and no name (which the table
\* rejects)
CallerData == {[name |-> Val(1)], [name |-> Val(2)], [name |-> NULL]}

\* the callers whose startTransaction sent the BEGIN of the open transaction
Owner == {c \in Callers : callers[c].began}

CallerCall(c, op, arg, err, statements, out) ==
  [op |-> op, arg |-> arg, err |-> err, ddl |-> statements, before |-> db,
   out |-> out, caller |-> c, owner |-> Owner]

\* insert up to its first await: the INSERT statement is sent; when it
\* fails the call is over
InsertSend(c, data) ==
  /\ callers[c].pc = "idle"
  /\ Len(db["users"].rows) < MaxCallerRows
  /\ \E r \in {insertSql(db, "users", data)} :
       IF r.err # NoError
         THEN /\ last' = CallerCall(c, "insert", <<"users", data>>, r.err, <<"INSERT">>, <<>>)
              /\ UNCHANGED <<db, txlog, lastInsertRowid, callers>>
       ELSE /\ db' = r.db
            /\ lastInsertRowid' = r.id
            /\ callers' = [callers EXCEPT ![c] =
                 [pc |-> "lookup", began |-> @.began, started |-> @.started,
                  data |-> data, inserted |-> r.id]]
            /\ txlog' = IF transactionOpen
                          THEN Append(txlog, [table |-> "users", data |-> data, id |-> r.id,
                                              err |-> NoError, caller |-> c])
                        ELSE txlog
            /\ last' = CallerCall(c, "INSERT", <<"users", data>>, NoError, <<"INSERT">>, <<>>)
  /\ UNCHANGED <<prev, schemaCalls, transactionOpen, autoCommit, wrapper, journal>>

\* the rest of insert: SELECT last_insert_rowid() as id, and return it;
\* `inserted` is the id of the row the call's INSERT added
InsertReturn(c) ==
  /\ callers[c].pc = "lookup"
  /\ last' = [op |-> "insert", arg |-> <<"users", callers[c].data>>, err |-> NoError,
              ddl |-> <<"SELECT last_insert_rowid()">>, before |-> db,
              out |-> <<lastInsertRowid>>, caller |-> c, owner |-> Owner,
              inserted |-> callers[c].inserted]
  /\ callers' = [callers EXCEPT ![c] =
       [pc |-> "idle", began |-> @.began, started |-> @.started]]
  /\ UNCHANGED <<db, prev, schemaCalls, transactionOpen, autoCommit, wrapper, journal, txlog,
                 lastInsertRowid>>

\* startTransaction() by a caller
StartBy(c) ==
  /\ callers[c].pc = "idle"
  /\ IF transactionOpen
       THEN /\ last' = CallerCall(c, "startTransaction", FALSE, NoError, <<>>, <<>>)
            /\ callers' = [callers EXCEPT ![c].started = TRUE]
            /\ UNCHANGED <<transactionOpen, autoCommit, wrapper, journal, txlog>>
     ELSE /\ last' = CallerCall(c, "startTransaction", FALSE, NoError,
                                <<"BEGIN TRANSACTION">>, <<>>)
          /\ journal' = db
          /\ transactionOpen' = TRUE
          /\ autoCommit' = FALSE
          /\ UNCHANGED wrapper
          /\ txlog' = <<>>
          /\ callers' = [callers EXCEPT ![c].started = TRUE, ![c].began = TRUE]
  /\ UNCHANGED <<db, prev, schemaCalls, lastInsertRowid>>

\* the callers when the open transaction has ended
AfterEnd == [c \in Callers |-> [callers[c] EXCEPT !.began = FALSE]]

\* commitTransaction() by a caller
CommitBy(c) ==
  /\ callers[c].pc = "idle"
  /\ IF ~transactionOpen
       THEN /\ last' = CallerCall(c, "commitTransaction", <<>>, "Not in a transaction",
                                  <<>>, <<>>)
            /\ UNCHANGED <<transactionOpen, journal, callers>>
     ELSE /\ last' = CallerCall(c, "commitTransaction", <<>>, NoError, <<"COMMIT">>, <<>>)
          /\ transactionOpen' = FALSE
          /\ journal' = EmptyDB
          /\ callers' = AfterEnd
  /\ UNCHANGED <<db, prev, schemaCalls, autoCommit, wrapper, txlog, lastInsertRowid>>

\* rollbackTransaction() by a caller
RollbackBy(c) ==
  /\ callers[c].pc = "idle"
  /\ IF ~transactionOpen
       THEN /\ last' = CallerCall(c, "rollbackTransaction", <<>>, "Not in a transaction",
                                  <<>>, <<>>)
            /\ UNCHANGED <<db, transactionOpen, journal, callers>>
     ELSE /\ last' = CallerCall(c, "rollbackTransaction", <<>>, NoError, <<"ROLLBACK">>, <<>>)
          /\ db' = Rollback(db, journal)
          /\ transactionOpen' = FALSE
          /\ journal' = EmptyDB
          /\ callers' = AfterEnd
  /\ UNCHANGED <<prev, schemaCalls, autoCommit, wrapper, txlog, lastInsertRowid>>

InitCallers ==
  /\ db = UsersCreated
  /\ last = NoCall
  /\ prev = Summary(NoCall)
  /\ schemaCalls = 0
  /\ NoTransaction

NextCallers ==
  \/ \E c \in Callers, data \in CallerData : InsertSend(c, data)
  \/ \E c \in Callers : InsertReturn(c)
  \/ \E c \in Callers : StartBy(c)
  \/ \E c \in Callers : CommitBy(c)
  \/ \E c \in Callers : RollbackBy(c)

SpecCallers == InitCallers /\ [][NextCallers]_vars

\* C25: an insert returns the id of the row its own INSERT statement added,
\* whatever the other caller's insert on the same instance has done between
\* the statement and the lookup.
C25_InsertReturnsOwnId ==
  (last.op = "insert" /\ last.err = NoError) => last.out = <<last.inserted>>

\* the inserts made while the transaction was open by callers other than c
\* that have not called startTransaction
WritesOfOthers(c) ==
  {k \in 1..Len(txlog) : txlog[k].caller # c /\ ~callers[txlog[k].caller].started}

\* C26: when the caller that began the transaction has rolled it back, the
\* rows inserted meanwhile by another caller that never called
\* startTransaction are still in the table; and a commitTransaction of a
\* caller whose own startTransaction found the transaction of another
\* caller open leaves that transaction open.
C26_CallersIsolated ==
  /\ (last.op = "rollbackTransaction" /\ last.err = NoError /\ last.owner = {last.caller})
     => \A k \in WritesOfOthers(last.caller) :
           Visible(db, txlog[k].table, txlog[k].id, txlog[k].data)
  /\ (/\ last.op = "commitTransaction" /\ last.err = NoError
      /\ callers[last.caller].started
      /\ last.owner # {} /\ last.caller \notin last.owner)
     => transactionOpen

----------------------------------------------------------------------------
(* schemaConnect and then query: the specification SpecLink *)

\* CoreDB.query as the call after the last one
QueryNext(q) ==
  /\ \E r \in {query(db, q)} :
       last' = [op |-> "query", arg |-> q, err |-> r.err, ddl |-> <<>>,
                before |-> db, out |-> r.out, calls |-> r.calls, after |-> q]
  /\ prev' = Summary(last)
  /\ UNCHANGED <<db, schemaCalls>>
  /\ UNCHANGED txvars

NextLink ==
  \/ \E pc \in ConnectPairs : SchemaConnect(pc[1], pc[2])
  \/ \E t \in {"authors", "books"} : InsertKeys(t)
  \/ \E pc \in ConnectPairs : QueryNext(Plainly(<<T(pc[1]), T(pc[2])>>))

SpecLink == InitConnect /\ [][NextLink]_vars

\* C27: a query on the chain [P, C] that follows a successful
\* schemaConnect(P, C) is not refused for a missing foreign key connection,
\* also when C had a column that differs from the expected one in case only.
C27_ConnectEstablishesQuery ==
  (/\ IsQuery(last)
   /\ prev.op = "schemaConnect" /\ prev.err = NoError
   /\ last.arg = Plainly(<<T(prev.arg[1]), T(prev.arg[2])>>))
  => last.err # MissingForeignKey(prev.arg[2], ForeignKeyField(prev.arg[1]), prev.arg[1])

----------------------------------------------------------------------------
(* schemaCreateOrUpdate on related tables: the specification SpecRebuild *)

BooksOfAuthors(titleRequired) ==
  Definition("books", <<Field("title", "Text", titleRequired, NoDefault, NotIndexed, NoTable),
                        Field("authorsId", "ReferenceManyToOne", FALSE, NoDefault,
                              NotIndexed, "authors")>>)

\* the definitions the program calls with once authors and books exist:
\* authors as it is, with the name required and with a default for the
\* name, and books as it is and with the title required
RebuildDefs ==
  { AuthorsDef,
    Definition("authors", <<Field("name", "Text", TRUE, NoDefault, NotIndexed, NoTable)>>),
    Definition("authors", <<Field("name", "Text", FALSE, "1", NotIndexed, NoTable)>>),
    BooksOfAuthors(FALSE),
    BooksOfAuthors(TRUE) }

InitRebuild ==
  /\ db = ReferencingBooks
  /\ last = NoCall
  /\ prev = Summary(NoCall)
  /\ schemaCalls = 0
  /\ NoTransaction

NextRebuild ==
  \/ \E D \in RebuildDefs : SchemaCreateOrUpdate(D)
  \/ \E t \in {"authors", "books"} : Insert(t)

SpecRebuild == InitRebuild /\ [][NextRebuild]_vars

\* the tables a schemaCreateOrUpdate call is not about: those that exist
\* before it under another name than the definition's
OtherTables(l) == DOMAIN l.before \ {l.arg.name}

\* C28: schemaCreateOrUpdate(D) leaves every table but D.name with the
\* columns and the rows it had, also the tables whose rows reference
\* D.name and also when D.name is rebuilt through a shadow table.
C28_OtherTablesUnchanged ==
  last.op = "schemaCreateOrUpdate"
  => \A t \in OtherTables(last) :
        /\ HasTable(db, t)
        /\ db[t].cols = last.before[t].cols
        /\ db[t].rows = last.before[t].rows

\* C30: when a schemaCreateOrUpdate call on table T is over, with or
\* without an error, there is no table T_temp, and so no later call on T is
\* refused because its shadow table exists already.
C30_NoShadowTableLeft ==
  last.op = "schemaCreateOrUpdate"
  => /\ ~HasTable(db, TempName(last.arg.name))
     /\ last.err # "table already exists"

----------------------------------------------------------------------------
(* QueryWrapper (src/src/core-js-wrapper.ts) on the table users: the       *)
(* specification SpecWrapper.  `wrapper.query` is the query object of the  *)
(* QueryWrapper, `wrapper.built` what the program built it as.              *)

\* the query objects the program builds: query('users'), with where('age',
\* 'neq', 1), with limit(2), and with orderBy('age', 'desc')
BuiltQueries ==
  { Query(<<T("users")>>, NoWhere, <<>>, 0, 0),
    Query(<<T("users")>>, AgeIsNot, <<>>, 0, 0),
    Query(<<T("users")>>, NoWhere, <<>>, 2, 0),
    Query(<<T("users")>>, NoWhere, <<[fieldId |-> "age", direction |-> "desc"]>>, 0, 0) }

\* new QueryWrapper(db, 'users') and the builder calls on it
BuildWrapper(q) ==
  /\ wrapper' = [query |-> q, built |-> q]
  /\ last' = [op |-> "build", arg |-> q, err |-> NoError, ddl |-> <<>>,
              before |-> db, out |-> <<>>]
  /\ UNCHANGED <<db, prev, schemaCalls, transactionOpen, autoCommit, journal, txlog,
                 lastInsertRowid, callers>>

InsertCounted ==
  /\ db["users"].seq < MaxWrapperIds
  /\ \E age \in {NULL, Val(1), Val(2)} :
       LET data == [c \in {"age"} |-> age]
           r == insert(db, "users", data)
       IN  /\ db' = r.db
           /\ last' = [op |-> "insert", arg |-> <<"users", data>>, err |-> r.err,
                       ddl |-> <<>>, before |-> db, out |-> <<r.id>>]
  /\ UNCHANGED <<prev, schemaCalls>>
  /\ UNCHANGED txvars

\* limit(value): this.query.limit = value
limit(w, value) == [w EXCEPT !.query.limit = value]

\* the record of a call on the QueryWrapper: `rows` are the results of its
\* execute()
WrapperCall(op, r, out) ==
  [op |-> op, arg |-> wrapper.built, err |-> r.err, ddl |-> <<>>, before |-> db,
   out |-> out, rows |-> r.out, calls |-> r.calls]

Unchanging == <<prev, schemaCalls, transactionOpen, autoCommit, journal, txlog,
                lastInsertRowid, callers>>

\* execute(): this.db.query(this.query)
Execute ==
  /\ wrapper # <<>>
  /\ \E r \in {query(db, wrapper.query)} : last' = WrapperCall("execute", r, r.out)
  /\ UNCHANGED <<db, wrapper>>
  /\ UNCHANGED Unchanging

\* first(): this.limit(1).execute(), and the first result or null
First ==
  /\ wrapper # <<>>
  /\ wrapper' = limit(wrapper, 1)
  /\ \E r \in {query(db, limit(wrapper, 1).query)} :
       last' = WrapperCall("first", r, IF r.out = <<>> THEN <<>> ELSE <<r.out[1]>>)
  /\ UNCHANGED db
  /\ UNCHANGED Unchanging

\* exists(): first() !== null
Exists ==
  /\ wrapper # <<>>
  /\ wrapper' = limit(wrapper, 1)
  /\ \E r \in {query(db, limit(wrapper, 1).query)} :
       last' = WrapperCall("exists", r, <<r.out # <<>>>>)
  /\ UNCHANGED db
  /\ UNCHANGED Unchanging

\* count(): the number of results of execute()
Count ==
  /\ wrapper # <<>>
  /\ \E r \in {query(db, wrapper.query)} : last' = WrapperCall("count", r, <<Len(r.out)>>)
  /\ UNCHANGED <<db, wrapper>>
  /\ UNCHANGED Unchanging

\* parseFloat(row[field]) || 0, summed over the results
RECURSIVE SumOf(_, _)
SumOf(rows, field) ==
  IF rows = <<>> THEN 0
  ELSE (IF rows[1][field] = NULL THEN 0 ELSE rows[1][field][1]) + SumOf(Tail(rows), field)

\* sum(field)
Sum(field) ==
  /\ wrapper # <<>>
  /\ \E r \in {query(db, wrapper.query)} :
       last' = WrapperCall("sum", r, <<SumOf(r.out, field)>>)
  /\ UNCHANGED <<db, wrapper>>
  /\ UNCHANGED Unchanging

\* avg(field): 0 without results, else the sum divided by their number,
\* kept as the pair of the two
Avg(field) ==
  /\ wrapper # <<>>
  /\ \E r \in {query(db, wrapper.query)} :
       last' = WrapperCall("avg", r, IF r.out = <<>> THEN <<0, 1>>
                                     ELSE <<SumOf(r.out, field), Len(r.out)>>)
  /\ UNCHANGED <<db, wrapper>>
  /\ UNCHANGED Unchanging

\* delete(): the results of execute() are deleted by id and returned
\* without their ids
Delete ==
  /\ wrapper # <<>>
  /\ \E r \in {query(db, wrapper.query)} :
       /\ db' = IF r.err = NoError /\ r.out # <<>>
                  THEN delete(db, wrapper.query.table[1].table,
                              {r.out[i].id[1] : i \in 1..Len(r.out)}).db
                ELSE db
       /\ last' = WrapperCall("delete", r,
                    [i \in 1..Len(r.out) |->
                       [c \in DOMAIN r.out[i] \ {"id"} |-> r.out[i][c]]])
  /\ UNCHANGED wrapper
  /\ UNCHANGED Unchanging

InitWrapper == InitFilter

NextWrapper ==
  \/ InsertCounted
  \/ \E q \in BuiltQueries : BuildWrapper(q)
  \/ Execute
  \/ First
  \/ Exists
  \/ Count
  \/ Sum("age")
  \/ Avg("age")
  \/ Delete

SpecWrapper == InitWrapper /\ [][NextWrapper]_vars

\* C29: execute(), count(), sum(), avg() and delete() work on the rows of
\* the query as the program built it, whether or not first() or exists()
\* has been called on the QueryWrapper before.
C29_InspectionLeavesQuery ==
  (last.op \in {"execute", "count", "sum", "avg", "delete"} /\ last.err = NoError)
  => last.rows = query(last.before, last.arg).out

====
